---------------------------- MODULE Spec2Model ----------------------------
(***************************************************************************)
(* Model of the One-Click Multi-Cloud Provisioner.                         *)
(*                                                                         *)
(* The cost estimator (modules/cost_estimator.py) computes with Python     *)
(* floats, i.e. IEEE-754 binary64 with round-to-nearest-even.  The model   *)
(* keeps that arithmetic: a float is a 53-bit mantissa and a binary        *)
(* exponent, the mantissa held as a little-endian sequence of 14-bit       *)
(* limbs so that no intermediate value leaves the range of the checker's   *)
(* integers.  Every quantity of the estimator is a non-negative finite     *)
(* number far from the subnormal and overflow ranges, so only those        *)
(* values are represented.                                                 *)
(***************************************************************************)
EXTENDS Integers, Sequences, FiniteSets, TLC

(***************************************************************************)
(* Natural numbers of arbitrary size: little-endian limbs, no high zero    *)
(* limb, zero is the empty sequence.  The operations are written without   *)
(* deep recursion: carries are resolved by lookahead, shifts and long      *)
(* division limb by limb from closed forms.  Every intermediate result is  *)
(* handed on as an operator argument, so that it is computed once.         *)
(***************************************************************************)
LimbBase == 2 ^ 14

LimbBits == CHOOSE k \in 1..30 : 2 ^ k = LimbBase

\* the sequence <<F(1), ..., F(n)>>
SeqOf(n, F(_)) == SubSeq([i \in 1..n |-> F(i)], 1, n)

Limb(a, i) == IF 1 <= i /\ i <= Len(a) THEN a[i] ELSE 0

\* a without its high zero limbs
BigNorm(a) ==
    SubSeq(a, 1, IF \A i \in 1..Len(a) : a[i] = 0 THEN 0
                 ELSE CHOOSE i \in 1..Len(a) :
                          a[i] # 0 /\ \A j \in (i + 1)..Len(a) : a[j] = 0)

\* bits of a limb-sized n: the least k with n < 2^k
IntBitLen(n) == CHOOSE k \in 0..31 : n < 2 ^ k /\ (k = 0 \/ 2 ^ (k - 1) <= n)

BigBitLen(a) ==
    IF a = <<>> THEN 0
    ELSE LimbBits * (Len(a) - 1) + IntBitLen(a[Len(a)])

\* one carry pass: each digit keeps its low limb and takes the overflow of
\* the digit below
CarryPass(c) ==
    LET D(i) == (Limb(c, i) % LimbBase) + (Limb(c, i - 1) \div LimbBase)
    IN  SeqOf(Len(c) + 1, D)

\* the limbs of a number whose digits d[i] are below 2 * LimbBase - 1: a
\* carry is 0 or 1 and enters digit i iff some digit below generates one
\* and every digit between passes it on
CarryResolve(d) ==
    LET cin(i) == \E j \in 1..(i - 1) :
                      /\ Limb(d, j) >= LimbBase
                      /\ \A k \in (j + 1)..(i - 1) : Limb(d, k) = LimbBase - 1
        D(i) == (Limb(d, i) + (IF cin(i) THEN 1 ELSE 0)) % LimbBase
    IN  SeqOf(Len(d) + 1, D)

\* the number  c[1] + c[2] * LimbBase + ...  for digits 0 <= c[i] < 2^30:
\* two passes bring every digit below LimbBase + 5
Carry(c) ==
    IF c = <<>> THEN <<>>
    ELSE BigNorm(CarryResolve(CarryPass(CarryPass(c))))

BigAdd(a, b) ==
    LET S(i) == Limb(a, i) + Limb(b, i)
    IN  IF a = <<>> THEN b
        ELSE IF b = <<>> THEN a
        ELSE Carry(SeqOf(IF Len(a) < Len(b) THEN Len(b) ELSE Len(a), S))

\* a * k for a small factor 0 <= k < 2^16
BigMulSmall(a, k) ==
    LET P(i) == a[i] * k
    IN  IF a = <<>> THEN <<>> ELSE Carry(SeqOf(Len(a), P))

\* a * b for a and b of at most four limbs each (two mantissas): column i
\* of the schoolbook product holds at most four limb products
BigMul(a, b) ==
    LET T(i, j) == Limb(a, j) * Limb(b, i + 1 - j)
        Col(i) == T(i, 1) + T(i, 2) + T(i, 3) + T(i, 4)
    IN  IF a = <<>> \/ b = <<>> THEN <<>>
        ELSE Carry(SeqOf(Len(a) + Len(b), Col))

ZeroLimbs(n) == [i \in 1..n |-> 0]

\* a * 2^k
BigShl(a, k) ==
    IF a = <<>> THEN <<>>
    ELSE ZeroLimbs(k \div LimbBits) \o BigMulSmall(a, 2 ^ (k % LimbBits))

\* floor(a / (LimbBase^drop * 2^s)) for s < LimbBits
BigShrLimbs(a, drop, s) ==
    LET Q(i) == (Limb(a, i + drop) \div (2 ^ s))
                + ((Limb(a, i + drop + 1) % (2 ^ s)) * (2 ^ (LimbBits - s)))
    IN  IF a = <<>> \/ drop >= Len(a) THEN <<>>
        ELSE BigNorm(SeqOf(Len(a) - drop, Q))

\* floor(a / 2^k)
BigShr(a, k) == BigShrLimbs(a, k \div LimbBits, k % LimbBits)

\* bit k of a (bit 0 is the lowest)
BigBit(a, k) == (Limb(a, (k \div LimbBits) + 1) \div (2 ^ (k % LimbBits))) % 2

\* whether a has a nonzero bit below bit k
BigLowBits(a, k) ==
    \/ \E i \in 1..(k \div LimbBits) : Limb(a, i) # 0
    \/ Limb(a, (k \div LimbBits) + 1) % (2 ^ (k % LimbBits)) # 0

\* a < b
BigLess(a, b) ==
    \/ Len(a) < Len(b)
    \/ /\ Len(a) = Len(b)
       /\ \E i \in 1..Len(a) :
             a[i] < b[i] /\ \A j \in (i + 1)..Len(a) : a[j] = b[j]

\* b^t mod d for a small exponent
RECURSIVE PowMod(_, _, _)
PowMod(b, t, d) ==
    IF t = 0 THEN 1 % d ELSE (PowMod(b, t - 1, d) * (b % d)) % d

\* F(lo) + ... + F(hi), halving the range
RECURSIVE SumOf(_, _, _)
SumOf(F(_), lo, hi) ==
    IF lo > hi THEN 0
    ELSE IF lo = hi THEN F(lo)
    ELSE SumOf(F, lo, (lo + hi) \div 2) + SumOf(F, ((lo + hi) \div 2) + 1, hi)

\* long division of a by d, given pw[t] = LimbBase^t mod d: the remainder
\* carried into limb i is the limbs above i taken modulo d
BigDivWith(a, d, pw) ==
    LET Above(i) ==
            LET Term(j) == (a[j] % d) * pw[j - i - 1]
            IN  SumOf(Term, i + 1, Len(a)) % d
        Q(i) == ((Above(i) * LimbBase) + a[i]) \div d
    IN  [q |-> BigNorm(SeqOf(Len(a), Q)), r |-> Above(0)]

\* quotient and remainder of a by a small divisor 0 < d <= 10^4
BigDivSmall(a, d) ==
    IF a = <<>> THEN [q |-> <<>>, r |-> 0]
    ELSE BigDivWith(a, d, [t \in 0..Len(a) |-> PowMod(LimbBase, t, d)])

(***************************************************************************)
(* binary64 values  m * 2^e  with m = 0, or 2^52 <= m < 2^53.              *)
(***************************************************************************)
MantBits == 53

FZero == [m |-> <<>>, e |-> 0]

\* q * 2^e for a rounded mantissa q, which rounding up may have brought
\* to 2^53
FRoundCarry(q, e) ==
    IF BigBitLen(q) > MantBits
    THEN [m |-> BigShr(q, 1), e |-> e + 1]
    ELSE [m |-> q, e |-> e]

\* m cut by k > 0 bits to the quotient q, rounded to nearest, ties to the
\* even mantissa
FRoundCut(m, e, k, q) ==
    FRoundCarry(IF /\ BigBit(m, k - 1) = 1
                   /\ (BigLowBits(m, k - 1) \/ BigBit(q, 0) = 1)
                THEN BigAdd(q, <<1>>) ELSE q,
                e + k)

\* the float nearest to m * 2^e for m # 0 of L bits
FRoundBits(m, e, L) ==
    IF L <= MantBits
    THEN [m |-> BigShl(m, MantBits - L), e |-> e - (MantBits - L)]
    ELSE FRoundCut(m, e, L - MantBits, BigShr(m, L - MantBits))

\* the float nearest to m * 2^e, ties to the even mantissa
FRound(m, e) == IF m = <<>> THEN FZero ELSE FRoundBits(m, e, BigBitLen(m))

\* float(n) for a Python int 0 <= n < 2^28
FFromInt(n) == FRound(BigNorm(<<n % LimbBase, n \div LimbBase>>), 0)

FMul(x, y) ==
    IF x.m = <<>> \/ y.m = <<>> THEN FZero
    ELSE FRound(BigMul(x.m, y.m), x.e + y.e)

\* x + y for nonzero x and y, aligned to the exponent e of the smaller
FAddAligned(x, y, e) ==
    FRound(BigAdd(BigShl(x.m, x.e - e), BigShl(y.m, y.e - e)), e)

FAdd(x, y) ==
    IF x.m = <<>> THEN y
    ELSE IF y.m = <<>> THEN x
    ELSE FAddAligned(x, y, IF x.e < y.e THEN x.e ELSE y.e)

\* x < y
FLess(x, y) ==
    IF y.m = <<>> THEN FALSE
    ELSE IF x.m = <<>> THEN TRUE
    ELSE IF x.e # y.e THEN x.e < y.e
    ELSE BigLess(x.m, y.m)

\* the decimal digits ds read as an integer
DigitsValue(ds) ==
    LET P(i) == ds[i] * (10 ^ (Len(ds) - i))
    IN  SumOf(P, 1, Len(ds))

\* the decimal digits ds read as an integer of any size: four digits at a
\* time, from the left, r being the number of digits of the last group
RECURSIVE BigFromDigits(_)
BigFromDigitsGroup(ds, r) ==
    BigAdd(BigMulSmall(BigFromDigits(SubSeq(ds, 1, Len(ds) - r)), 10 ^ r),
           BigNorm(<<DigitsValue(SubSeq(ds, Len(ds) - r + 1, Len(ds)))>>))

BigFromDigits(ds) ==
    IF ds = <<>> THEN <<>>
    ELSE BigFromDigitsGroup(ds, IF Len(ds) % 4 = 0 THEN 4 ELSE Len(ds) % 4)

\* [q, sticky]: q = floor(a / 10^n), sticky iff some remainder was dropped;
\* divides by up to four decimal places at a time
RECURSIVE BigDivPow10(_, _, _)
BigDivPow10Step(d, n, sticky) == BigDivPow10(d.q, n, sticky \/ d.r # 0)

BigDivPow10(a, n, sticky) ==
    IF a = <<>> \/ n = 0 THEN [q |-> a, sticky |-> sticky]
    ELSE IF n >= 4 THEN BigDivPow10Step(BigDivSmall(a, 10 ^ 4), n - 4, sticky)
    ELSE BigDivPow10Step(BigDivSmall(a, 10 ^ n), 0, sticky)

\* the float nearest to (d.q + a dropped remainder) * 2^(-k): the
\* remainder is kept as a lowest bit under the quotient
FloatLitQuot(d, k) ==
    FRound(BigAdd(BigShl(d.q, 1), IF d.sticky THEN <<1>> ELSE <<>>), 0 - k - 1)

\* num / 10^scale for num # 0: the quotient of num * 2^k is taken with
\* more than 53 bits
FloatLitShift(num, scale, want) ==
    IF want > 0
    THEN FloatLitQuot(BigDivPow10(BigShl(num, want), scale, FALSE), want)
    ELSE FloatLitQuot(BigDivPow10(num, scale, FALSE), 0)

\* the value of a decimal literal: the digits ds read as an integer,
\* divided by 10^scale, correctly rounded (what the Python compiler does
\* with 0.0416: ds = <<4,1,6>>, scale = 4)
FloatLitNum(num, scale) ==
    IF num = <<>> THEN FZero
    ELSE FloatLitShift(num, scale, 60 + 4 * scale - BigBitLen(num))

FloatLit(ds, scale) == FloatLitNum(BigFromDigits(ds), scale)

(***************************************************************************)
(* Python values.  None is written as a string no program string equals.   *)
(* An int that meets a float in arithmetic or comparison is converted      *)
(* (FFromInt), so the int 0 and the int 10 the estimator stores in a       *)
(* breakdown are held as the floats they compare equal to.                 *)
(***************************************************************************)
None == "<None>"

EmptyDict == [k \in {} |-> None]

\* dict.get(k, default)
Get(d, k, default) == IF k \in DOMAIN d THEN d[k] ELSE default

\* the strings a caller passes for the provider and the environment
RawClouds == {"aws", "AWS", "gcp", "Gcp", "azure"}
RawEnvs == {"dev", "staging", "prod", "PROD", "qa"}

\* str.lower() on those strings
Lower(s) ==
    CASE s = "AWS" -> "aws"
      [] s = "Gcp" -> "gcp"
      [] s = "PROD" -> "prod"
      [] OTHER -> s

\* what pricing_client.get_products and the parse of its answer can do:
\* the request raises; the PriceList is empty; the response or its first
\* entry does not parse (KeyError, JSON error); the first entry parses as
\* JSON but holds no price; a well-formed price list
LiveResponses == {"raise", "empty", "malformed", "unpriced", "ok"}

\* the answers that reach line 136: json.loads returned, whatever it read
LiveParsed == {"unpriced", "ok"}

AWS_PRICING_FALLBACK ==
    ("t3.medium" :> (("us-east-1" :> FloatLit(<<4, 1, 6>>, 4))
                     @@ ("us-west-2" :> FloatLit(<<4, 1, 6>>, 4))))
    @@ ("t3.large" :> (("us-east-1" :> FloatLit(<<8, 3, 2>>, 4))
                       @@ ("us-west-2" :> FloatLit(<<8, 3, 2>>, 4))))
    @@ ("db.t3.micro" :> (("us-east-1" :> FloatLit(<<1, 7>>, 3))
                          @@ ("us-west-2" :> FloatLit(<<1, 7>>, 3))))
    @@ ("db.t3.small" :> (("us-east-1" :> FloatLit(<<3, 4>>, 3))
                          @@ ("us-west-2" :> FloatLit(<<3, 4>>, 3))))

GCP_PRICING_FALLBACK ==
    ("n1-standard-1" :> (("us-east1" :> FloatLit(<<4, 7, 5>>, 4))
                         @@ ("us-west1" :> FloatLit(<<4, 7, 5>>, 4))))
    @@ ("n1-standard-2" :> (("us-east1" :> FloatLit(<<9, 5>>, 3))
                            @@ ("us-west1" :> FloatLit(<<9, 5>>, 3))))
    @@ ("db-f1-micro" :> (("us-east1" :> FloatLit(<<1, 5>>, 3))
                          @@ ("us-west1" :> FloatLit(<<1, 5>>, 3))))
    @@ ("db-g1-small" :> (("us-east1" :> FloatLit(<<2, 5>>, 3))
                          @@ ("us-west1" :> FloatLit(<<2, 5>>, 3))))

region_map ==
    [aws |-> [dev |-> "us-east-1", staging |-> "us-west-2", prod |-> "us-west-2"],
     gcp |-> [dev |-> "us-east1", staging |-> "us-west1", prod |-> "us-west1"]]

\* staging sized like dev
InstanceMapStagingAsDev ==
    [aws |-> [dev |-> "t3.medium", staging |-> "t3.medium", prod |-> "t3.large"],
     gcp |-> [dev |-> "n1-standard-1", staging |-> "n1-standard-1",
              prod |-> "n1-standard-2"]]

instance_map ==
    [aws |-> [dev |-> "t3.medium", staging |-> "t3.large", prod |-> "t3.large"],
     gcp |-> [dev |-> "n1-standard-1", staging |-> "n1-standard-2",
              prod |-> "n1-standard-2"]]

db_map ==
    [aws |-> [dev |-> "db.t3.micro", staging |-> "db.t3.small",
              prod |-> "db.t3.small"],
     gcp |-> [dev |-> "db-f1-micro", staging |-> "db-g1-small",
              prod |-> "db-g1-small"]]

_get_region(cloud, environment) ==
    Get(Get(region_map, cloud, EmptyDict), environment, "us-east-1")

_get_instance_type(self) ==
    Get(Get(instance_map, self.cloud, EmptyDict), self.environment, "t3.medium")

\* the inner get without its default: an unknown tier gives None
GetDbInstanceTypeNoDefault(self) ==
    Get(Get(db_map, self.cloud, EmptyDict), self.environment, None)

_get_db_instance_type(self) ==
    Get(Get(db_map, self.cloud, EmptyDict), self.environment, "db.t3.micro")

\* the pricing client kept although the client library is absent
InitClientWithoutLibrary(cloud, environment, enable_db, aws_available, gcp_available, client_ok) ==
    [cloud |-> Lower(cloud),
     environment |-> Lower(environment),
     enable_db |-> enable_db,
     region |-> _get_region(Lower(cloud), Lower(environment)),
     pricing_client |->
         IF Lower(cloud) = "aws" /\ client_ok THEN "pricing" ELSE None,
     billing_client |->
         IF Lower(cloud) = "gcp" /\ gcp_available /\ client_ok
         THEN "billing" ELSE None]

\* CostEstimator(cloud, environment, enable_db).  aws_available and
\* gcp_available are the module's import flags; client_ok tells whether the
\* client constructor returns (TRUE) or raises (FALSE).
__init__(cloud, environment, enable_db, aws_available, gcp_available, client_ok) ==
    [cloud |-> Lower(cloud),
     environment |-> Lower(environment),
     enable_db |-> enable_db,
     region |-> _get_region(Lower(cloud), Lower(environment)),
     pricing_client |->
         IF Lower(cloud) = "aws" /\ aws_available /\ client_ok
         THEN "pricing" ELSE None,
     billing_client |->
         IF Lower(cloud) = "gcp" /\ gcp_available /\ client_ok
         THEN "billing" ELSE None]

\* staging sized like prod
NumInstancesStagingToo(environment) ==
    IF environment \in {"prod", "staging"} THEN 2 ELSE 1

num_instances(environment) == IF environment = "prod" THEN 2 ELSE 1

HoursPerMonth == 730

compute_monthly(instance_hourly, n) ==
    FMul(FMul(instance_hourly, FFromInt(n)), FFromInt(HoursPerMonth))

\* the static table ignored: the default price whatever the type
AwsInstanceHourlyDefault(self, instance_type, live) == FloatLit(<<5>>, 2)

\* lines 120-145: the hourly compute price, from the live source when it
\* answers and from the static table otherwise
aws_instance_hourly(self, instance_type, live) ==
    IF self.pricing_client # None /\ live \in LiveParsed
    THEN FloatLit(<<5>>, 2)
    ELSE Get(Get(AWS_PRICING_FALLBACK, instance_type, EmptyDict),
             self.region, FloatLit(<<5>>, 2))

\* the AWS default price used for a GCP miss
GcpInstanceHourlyAwsDefault(self, instance_type) ==
    Get(Get(GCP_PRICING_FALLBACK, instance_type, EmptyDict),
        self.region, FloatLit(<<5>>, 2))

gcp_instance_hourly(self, instance_type) ==
    Get(Get(GCP_PRICING_FALLBACK, instance_type, EmptyDict),
        self.region, FloatLit(<<4, 7, 5>>, 4))

\* the database priced at the default whenever there is a live client
AwsDbHourlyLiveDefault(self, db_type) ==
    IF self.pricing_client # None THEN FloatLit(<<1, 7>>, 3)
    ELSE Get(Get(AWS_PRICING_FALLBACK, db_type, EmptyDict),
             self.region, FloatLit(<<1, 7>>, 3))

aws_db_hourly(self, db_type) ==
    Get(Get(AWS_PRICING_FALLBACK, db_type, EmptyDict),
        self.region, FloatLit(<<1, 7>>, 3))

gcp_db_hourly(self, db_type) ==
    Get(Get(GCP_PRICING_FALLBACK, db_type, EmptyDict),
        self.region, FloatLit(<<1, 5>>, 3))

\* the database charged whether or not it is enabled
DbMonthlyAlways(enable_db, db_hourly) ==
    FMul(db_hourly, FFromInt(HoursPerMonth))

db_monthly(enable_db, db_hourly) ==
    IF enable_db THEN FMul(db_hourly, FFromInt(HoursPerMonth)) ELSE FZero

\* the database's 20 GB counted whether or not it is enabled
StorageGbAlwaysDb(n, enable_db) == 30 * n + 20

storage_gb(n, enable_db) == IF enable_db THEN 30 * n + 20 ELSE 30 * n

\* the database's 20 GB priced at the EBS rate instead of the RDS rate
AwsStorageMonthlyOneRate(n, enable_db) ==
    IF enable_db
    THEN FAdd(FMul(FFromInt(30 * n), FloatLit(<<1, 0>>, 2)),
              FMul(FFromInt(20), FloatLit(<<1, 0>>, 2)))
    ELSE FMul(FFromInt(30 * n), FloatLit(<<1, 0>>, 2))

aws_storage_monthly(n, enable_db) ==
    IF enable_db
    THEN FAdd(FMul(FFromInt(30 * n), FloatLit(<<1, 0>>, 2)),
              FMul(FFromInt(20), FloatLit(<<1, 1, 5>>, 3)))
    ELSE FMul(FFromInt(30 * n), FloatLit(<<1, 0>>, 2))

\* the persistent disk priced at the AWS rate
GcpStorageMonthlyAwsRate(n, enable_db) ==
    IF enable_db
    THEN FAdd(FMul(FFromInt(30 * n), FloatLit(<<1, 0>>, 2)),
              FMul(FFromInt(20), FloatLit(<<1, 7>>, 2)))
    ELSE FMul(FFromInt(30 * n), FloatLit(<<1, 0>>, 2))

gcp_storage_monthly(n, enable_db) ==
    IF enable_db
    THEN FAdd(FMul(FFromInt(30 * n), FloatLit(<<1, 7>>, 2)),
              FMul(FFromInt(20), FloatLit(<<1, 7>>, 2)))
    ELSE FMul(FFromInt(30 * n), FloatLit(<<1, 7>>, 2))

data_transfer_monthly == FFromInt(10)

\* the total without the database and storage items
TotalMonthlyComputeOnly(compute, storage, transfer, db) ==
    FAdd(compute, transfer)

\* the total without the data transfer item
TotalMonthlyNoTransfer(compute, storage, transfer, db) ==
    FAdd(FAdd(compute, storage), db)

total_monthly(compute, storage, transfer, db) ==
    FAdd(FAdd(FAdd(compute, storage), transfer), db)

\* the year taken as ten months
TotalYearlyTenMonths(monthly) == FMul(monthly, FFromInt(10))

total_yearly(monthly) == FMul(monthly, FFromInt(12))

\* the dict both estimators return, from the items and their total
cost_dict(self, n, instance_type, instance_hourly, cm, storage_monthly, dbm, tm) ==
    [compute |-> [instances |-> n, type |-> instance_type,
                  hourly |-> instance_hourly, monthly |-> cm],
     storage |-> [gb |-> storage_gb(n, self.enable_db),
                  monthly |-> storage_monthly],
     data_transfer |-> [monthly |-> data_transfer_monthly],
     database |-> [enabled |-> self.enable_db,
                   type |-> IF self.enable_db
                            THEN _get_db_instance_type(self) ELSE None,
                   monthly |-> dbm],
     total_monthly |-> tm,
     total_yearly |-> total_yearly(tm)]

\* the monthly items summed
cost_items(self, n, instance_type, instance_hourly, cm, storage_monthly, dbm) ==
    cost_dict(self, n, instance_type, instance_hourly, cm, storage_monthly, dbm,
              total_monthly(cm, storage_monthly, data_transfer_monthly, dbm))

\* the part the two estimators share, from the prices each has looked up
cost_summary(self, n, instance_type, instance_hourly, storage_monthly, db_hourly) ==
    cost_items(self, n, instance_type, instance_hourly,
               compute_monthly(instance_hourly, n), storage_monthly,
               db_monthly(self.enable_db, db_hourly))

\* _estimate_aws_cost for the instance type and count it has determined
aws_cost(self, live, instance_type, n) ==
    cost_summary(self, n, instance_type,
                 aws_instance_hourly(self, instance_type, live),
                 aws_storage_monthly(n, self.enable_db),
                 aws_db_hourly(self, _get_db_instance_type(self)))

_estimate_aws_cost(self, live) ==
    aws_cost(self, live, _get_instance_type(self),
             num_instances(self.environment))

\* _estimate_gcp_cost for the instance type and count it has determined
gcp_cost(self, instance_type, n) ==
    cost_summary(self, n, instance_type,
                 gcp_instance_hourly(self, instance_type),
                 gcp_storage_monthly(n, self.enable_db),
                 gcp_db_hourly(self, _get_db_instance_type(self)))

_estimate_gcp_cost(self) ==
    gcp_cost(self, _get_instance_type(self), num_instances(self.environment))

\* the static table read for the compute price whatever the live source
\* answers
AwsLookupsAlwaysCompute(self, live) ==
    {[table |-> "aws", kind |-> "compute",
      key |-> _get_instance_type(self), region |-> self.region]}
    \cup (IF self.enable_db
          THEN {[table |-> "aws", kind |-> "database",
                 key |-> _get_db_instance_type(self), region |-> self.region]}
          ELSE {})

\* the reads of a static price table one estimation makes: which
\* provider's table, under which type identifier, then which region
aws_lookups(self, live) ==
    (IF self.pricing_client # None /\ live \in LiveParsed
     THEN {}
     ELSE {[table |-> "aws", kind |-> "compute",
            key |-> _get_instance_type(self), region |-> self.region]})
    \cup (IF self.enable_db
          THEN {[table |-> "aws", kind |-> "database",
                 key |-> _get_db_instance_type(self), region |-> self.region]}
          ELSE {})

gcp_lookups(self) ==
    {[table |-> "gcp", kind |-> "compute",
      key |-> _get_instance_type(self), region |-> self.region]}
    \cup (IF self.enable_db
          THEN {[table |-> "gcp", kind |-> "database",
                 key |-> _get_db_instance_type(self), region |-> self.region]}
          ELSE {})

\* the table reads of estimate()
lookups(self, live) ==
    IF self.cloud = "aws" THEN aws_lookups(self, live)
    ELSE IF self.cloud = "gcp" THEN gcp_lookups(self)
    ELSE {}

\* an unknown provider priced as AWS instead of rejected
EstimateDefaultsToAws(self, live) ==
    IF self.cloud = "gcp"
    THEN [kind |-> "return", value |-> _estimate_gcp_cost(self)]
    ELSE [kind |-> "return", value |-> _estimate_aws_cost(self, live)]

\* the live request made outside the try block: its error reaches the caller
EstimatePropagatesLiveError(self, live) ==
    IF self.cloud = "aws"
    THEN IF self.pricing_client # None /\ live = "raise"
         THEN [kind |-> "raise", exc |-> "ClientError",
               text |-> "get_products", arg |-> self.cloud]
         ELSE [kind |-> "return", value |-> _estimate_aws_cost(self, live)]
    ELSE IF self.cloud = "gcp"
    THEN [kind |-> "return", value |-> _estimate_gcp_cost(self)]
    ELSE [kind |-> "raise", exc |-> "ValueError",
          text |-> "Unsupported cloud provider: ", arg |-> self.cloud]

\* estimate(): what the call returns, or the exception it raises
estimate(self, live) ==
    IF self.cloud = "aws"
    THEN [kind |-> "return", value |-> _estimate_aws_cost(self, live)]
    ELSE IF self.cloud = "gcp"
    THEN [kind |-> "return", value |-> _estimate_gcp_cost(self)]
    ELSE [kind |-> "raise", exc |-> "ValueError",
          text |-> "Unsupported cloud provider: ", arg |-> self.cloud]

\* the int a stands for, for a < 2^28
BigToInt(a) == Limb(a, 1) + (Limb(a, 2) * LimbBase)

\* n / 2^k rounded to the nearest integer, ties to even, q being the
\* quotient floor(n / 2^k)
FormatCentsCut(n, k, q) ==
    BigToInt(IF /\ BigBit(n, k - 1) = 1
                /\ (BigLowBits(n, k - 1) \/ BigBit(q, 0) = 1)
             THEN BigAdd(q, <<1>>) ELSE q)

\* n * 2^e rounded to the nearest integer
FormatCentsOf(n, e) ==
    IF e >= 0 THEN BigToInt(BigShl(n, e))
    ELSE FormatCentsCut(n, 0 - e, BigShr(n, 0 - e))

\* f"${x:.2f}": the decimal with two places nearest to the exact value of
\* the float x, written here as its number of cents ("$36.50" is 3650)
FormatCents(x) == FormatCentsOf(BigMulSmall(x.m, 100), x.e)

\* the rows print_summary builds between the header and the rule before
\* the totals, and the two total rows after it
table_data(summary) ==
    <<[component |-> "Compute",
       details |-> <<summary.compute.instances, "x",
                     summary.compute.type>>,
       cost |-> FormatCents(summary.compute.monthly)],
      [component |-> "Storage",
       details |-> <<summary.storage.gb, "GB">>,
       cost |-> FormatCents(summary.storage.monthly)],
      [component |-> "Data Transfer",
       details |-> <<"Estimated">>,
       cost |-> FormatCents(summary.data_transfer.monthly)]>>
    \o (IF summary.database.enabled
        THEN <<[component |-> "Database",
                details |-> <<summary.database.type>>,
                cost |-> FormatCents(summary.database.monthly)]>>
        ELSE <<>>)
    \o <<[component |-> "TOTAL (Monthly)", details |-> <<>>,
          cost |-> FormatCents(summary.total_monthly)],
         [component |-> "TOTAL (Yearly)", details |-> <<>>,
          cost |-> FormatCents(summary.total_yearly)]>>

\* the totals rounded to cents in the dict itself while printing
PrintSummaryRoundsInPlace(self, summary) ==
    [table_data |-> table_data(summary),
     cost_summary |->
         [summary EXCEPT !.total_monthly =
                             FFromInt(FormatCents(summary.total_monthly))]]

\* print_summary(cost_summary): the table it prints, and the dict it was
\* given as the call leaves it
print_summary(self, summary) ==
    [table_data |-> table_data(summary), cost_summary |-> summary]

(***************************************************************************)
(* State.  Of the estimator module: its import flags, one estimator       *)
(* object, the latest estimate() call on it (the live source's behaviour  *)
(* during the call, the price-table reads it made, what it gave back) and *)
(* the latest print_summary() of that result.  Of the provisioning        *)
(* script: whether its import of CostEstimator succeeded, the arguments   *)
(* of the run, the Provisioner object, the position in provision(), the   *)
(* steps entered so far and the exit status of the process.               *)
(***************************************************************************)
VARIABLES AWS_AVAILABLE, GCP_AVAILABLE, est, call, ret, printed,
          CostEstimator, args, prov, pc, trace, results, exit_status,
          dargs, detector, dpc, terraform, plan, drift_summary, report,
          saved, alerts, detected, drift_exit,
          estimators, frames

estvars == <<AWS_AVAILABLE, GCP_AVAILABLE, est, call, ret, printed>>

provvars == <<CostEstimator, args, prov, pc, trace, results, exit_status>>

driftvars == <<dargs, detector, dpc, terraform, plan, drift_summary, report,
               saved, alerts, detected, drift_exit>>

callvars == <<estimators, frames>>

vars == <<AWS_AVAILABLE, GCP_AVAILABLE, est, call, ret, printed,
          CostEstimator, args, prov, pc, trace, results, exit_status,
          dargs, detector, dpc, terraform, plan, drift_summary, report,
          saved, alerts, detected, drift_exit, estimators, frames>>

\* no call yet, no object yet, not exited yet
NoCall == [kind |-> "none"]

\* no estimators called side by side
NoCalls == estimators = <<>> /\ frames = <<>>

\* no drift detection: the drift detector is not used
NoDrift ==
    /\ dargs = NoCall
    /\ detector = NoCall
    /\ dpc = "none"
    /\ terraform = NoCall
    /\ plan = NoCall
    /\ drift_summary = NoCall
    /\ report = <<>>
    /\ saved = <<>>
    /\ alerts = <<>>
    /\ detected = NoCall
    /\ drift_exit = NoCall

\* no provisioning run: the estimator module used on its own
NoRun ==
    /\ CostEstimator = "class"
    /\ args = NoCall
    /\ prov = NoCall
    /\ pc = "none"
    /\ trace = <<>>
    /\ results = <<>>
    /\ exit_status = NoCall

Init ==
    /\ AWS_AVAILABLE \in BOOLEAN
    /\ GCP_AVAILABLE \in BOOLEAN
    /\ \E cloud \in RawClouds, environment \in RawEnvs,
          enable_db \in BOOLEAN, client_ok \in BOOLEAN :
          est = __init__(cloud, environment, enable_db,
                         AWS_AVAILABLE, GCP_AVAILABLE, client_ok)
    /\ call = NoCall
    /\ ret = NoCall
    /\ printed = NoCall
    /\ NoRun
    /\ NoDrift
    /\ NoCalls

\* a new estimator replaces the object; it has had no call yet
Construct ==
    /\ \E cloud \in RawClouds, environment \in RawEnvs,
          enable_db \in BOOLEAN, client_ok \in BOOLEAN :
          est' = __init__(cloud, environment, enable_db,
                          AWS_AVAILABLE, GCP_AVAILABLE, client_ok)
    /\ call' = NoCall
    /\ ret' = NoCall
    /\ printed' = NoCall
    /\ UNCHANGED <<AWS_AVAILABLE, GCP_AVAILABLE>>
    /\ UNCHANGED provvars
    /\ UNCHANGED driftvars
    /\ UNCHANGED callvars

\* estimator.estimate(); the live source is consulted only through
\* pricing_client, so its behaviour is recorded only when there is one;
\* the call's reads of the static price tables are recorded with it
Estimate ==
    /\ \E live \in LiveResponses :
          /\ call' = [kind |-> "estimate",
                      live |-> IF est.cloud = "aws" /\ est.pricing_client # None
                               THEN live ELSE "unused",
                      lookups |-> lookups(est, live)]
          /\ ret' = estimate(est, live)
    /\ printed' = NoCall
    /\ UNCHANGED <<AWS_AVAILABLE, GCP_AVAILABLE, est>>
    /\ UNCHANGED provvars
    /\ UNCHANGED driftvars
    /\ UNCHANGED callvars

\* estimator.print_summary(cost_summary) on the breakdown the latest call
\* returned: the table printed is kept with the dict as it was handed in
PrintSummary ==
    /\ ret.kind = "return"
    /\ printed' = [kind |-> "printed",
                   table_data |-> print_summary(est, ret.value).table_data,
                   given |-> ret.value]
    /\ ret' = [ret EXCEPT !.value = print_summary(est, ret.value).cost_summary]
    /\ UNCHANGED <<AWS_AVAILABLE, GCP_AVAILABLE, est, call>>
    /\ UNCHANGED provvars
    /\ UNCHANGED driftvars
    /\ UNCHANGED callvars

Next == Construct \/ Estimate \/ PrintSummary

Spec == Init /\ [][Next]_vars

(***************************************************************************)
(* The provisioning script (scripts/provision.py).  A run starts in main() *)
(* with the command line, or with a caller that constructs a Provisioner   *)
(* itself and calls provision().  The external tools (terraform, ansible,  *)
(* the file system) answer as they like: each step draws their outcome.    *)
(***************************************************************************)
SupportedClouds == {"aws", "gcp"}
SupportedEnvironments == {"dev", "staging", "prod"}

\* the environment not validated
ProvisionerNoEnvCheck(cloud, environment, enable_db) ==
    IF Lower(cloud) \notin SupportedClouds
    THEN [kind |-> "raise", exc |-> "ValueError",
          text |-> "Unsupported cloud provider: ", arg |-> cloud]
    ELSE [kind |-> "return",
          value |-> [cloud |-> Lower(cloud),
                     environment |-> Lower(environment),
                     enable_db |-> enable_db]]

\* Provisioner(cloud, environment, enable_db): the object, or the ValueError
Provisioner(cloud, environment, enable_db) ==
    IF Lower(cloud) \notin SupportedClouds
    THEN [kind |-> "raise", exc |-> "ValueError",
          text |-> "Unsupported cloud provider: ", arg |-> cloud]
    ELSE IF Lower(environment) \notin SupportedEnvironments
    THEN [kind |-> "raise", exc |-> "ValueError",
          text |-> "Unsupported environment: ", arg |-> environment]
    ELSE [kind |-> "return",
          value |-> [cloud |-> Lower(cloud),
                     environment |-> Lower(environment),
                     enable_db |-> enable_db]]

\* parser.parse_args(): --cloud and --env are checked against their
\* choices as typed; a value outside them ends the process with status 2
parse_args(argv) ==
    argv.cloud \in SupportedClouds /\ argv.env \in SupportedEnvironments

\* the command lines and the direct constructions a run can start from
CommandLines ==
    [entry : {"main"}, cloud : RawClouds, env : RawEnvs,
     enable_db : BOOLEAN, skip_costs : BOOLEAN]

DirectCalls ==
    [entry : {"provision"}, cloud : RawClouds, env : RawEnvs,
     enable_db : BOOLEAN, skip_costs : {FALSE}]

\* what a subprocess or file-system call of a step can do: return, raise
\* subprocess.CalledProcessError, raise another Exception (OSError, ...)
ToolOutcomes == {"ok", "CalledProcessError", "Exception"}

\* where an Exception can arise inside the try block of estimate_costs:
\* nowhere, in CostEstimator(...), in estimate(), in print_summary()
EstimationFaults == {"none", "CostEstimator", "estimate", "print_summary"}

ProvInit ==
    /\ AWS_AVAILABLE \in BOOLEAN
    /\ GCP_AVAILABLE \in BOOLEAN
    /\ CostEstimator \in {"class", None}
    /\ args \in CommandLines \cup DirectCalls
    /\ est = NoCall
    /\ call = NoCall
    /\ ret = NoCall
    /\ printed = NoCall
    /\ prov = NoCall
    /\ pc = "start"
    /\ trace = <<>>
    /\ results = <<>>
    /\ exit_status = NoCall
    /\ NoDrift
    /\ NoCalls

\* sys.exit(status): SystemExit is not an Exception, so nothing in the
\* script catches it and the process ends with the status
Exit(status) ==
    /\ pc' = "exited"
    /\ exit_status' = [kind |-> "exit", code |-> status]

\* an Exception leaves provision(): main() catches it, prints it and exits
\* with status 1 (lines 296-298); a direct caller receives it
Escape ==
    IF args.entry = "main"
    THEN Exit(1)
    ELSE pc' = "raised" /\ exit_status' = exit_status

\* the step at pc is entered
Enter(step) == pc = step /\ trace' = Append(trace, step)

\* the step ends: what it did is the result of the step
Leave(outcome) == results' = Append(results, outcome)

\* main(): parse the command line, construct the Provisioner, go on to
\* provision()
Main ==
    /\ pc = "start" /\ args.entry = "main"
    /\ IF ~parse_args(args)
       THEN Exit(2) /\ prov' = prov
       ELSE IF Provisioner(args.cloud, args.env, args.enable_db).kind = "raise"
       THEN Exit(1) /\ prov' = prov
       ELSE /\ prov' = Provisioner(args.cloud, args.env, args.enable_db).value
            /\ pc' = "check_prerequisites"
            /\ exit_status' = exit_status
    /\ UNCHANGED <<CostEstimator, args, trace, results>>
    /\ UNCHANGED estvars
    /\ UNCHANGED driftvars
    /\ UNCHANGED callvars

\* a caller constructs the Provisioner itself and calls provision()
Call ==
    /\ pc = "start" /\ args.entry = "provision"
    /\ IF Provisioner(args.cloud, args.env, args.enable_db).kind = "raise"
       THEN pc' = "raised" /\ prov' = prov
       ELSE /\ prov' = Provisioner(args.cloud, args.env, args.enable_db).value
            /\ pc' = "check_prerequisites"
    /\ UNCHANGED <<CostEstimator, args, trace, results, exit_status>>
    /\ UNCHANGED estvars
    /\ UNCHANGED driftvars
    /\ UNCHANGED callvars

\* check_prerequisites(): a tool that fails or is not found is missing
\* and ends the run
CheckPrerequisites ==
    /\ Enter("check_prerequisites")
    /\ \E outcome \in {"ok", "missing", "Exception"} :
        /\ Leave(outcome)
        /\ CASE outcome = "ok" ->
                   pc' = "estimate_costs" /\ exit_status' = exit_status
            [] outcome = "missing" -> Exit(1)
            [] outcome = "Exception" -> Escape
    /\ UNCHANGED <<CostEstimator, args, prov>>
    /\ UNCHANGED estvars
    /\ UNCHANGED driftvars
    /\ UNCHANGED callvars

\* the exception let through instead of caught
EstimateCostsUncaught(available, fault) ==
    IF available = None THEN "skipped"
    ELSE IF fault = "none" THEN "printed"
    ELSE "raised"

\* how estimate_costs() ends: without the estimator class it returns at
\* once; an Exception in the try block is caught and reported
estimate_costs(available, fault) ==
    IF available = None THEN "skipped"
    ELSE IF fault = "none" THEN "printed"
    ELSE "caught"

\* the estimator state after the try block of estimate_costs: e is the
\* estimator CostEstimator(...) returns and r what e.estimate() gives,
\* when they get that far
EstimatorAfter(e, r, live, fault) ==
    /\ est' = IF fault = "CostEstimator" THEN est ELSE e
    /\ call' = IF fault \in {"CostEstimator", "estimate"} THEN NoCall
               ELSE [kind |-> "estimate", live |-> live,
                     lookups |-> lookups(e, live)]
    /\ ret' = IF fault = "CostEstimator" THEN NoCall
              ELSE IF fault = "estimate"
              THEN [kind |-> "raise", exc |-> "Exception",
                    text |-> "", arg |-> e.cloud]
              ELSE r
    /\ printed' = IF fault = "none"
                  THEN [kind |-> "printed",
                        table_data |-> print_summary(e, r.value).table_data,
                        given |-> r.value]
                  ELSE NoCall

\* the estimators CostEstimator(...) can return for this Provisioner
Estimators ==
    {__init__(prov.cloud, prov.environment, prov.enable_db,
              AWS_AVAILABLE, GCP_AVAILABLE, client_ok) : client_ok \in BOOLEAN}

\* estimate_costs(): construct the estimator, estimate, print the summary
EstimateCosts ==
    /\ Enter("estimate_costs")
    /\ \E fault \in EstimationFaults :
          /\ IF CostEstimator = None
             THEN fault = "none" /\ UNCHANGED <<est, call, ret, printed>>
             ELSE \E e \in Estimators :
                    \E live \in IF e.pricing_client # None
                                THEN LiveResponses ELSE {"unused"} :
                       EstimatorAfter(e, estimate(e, live), live, fault)
          /\ Leave(estimate_costs(CostEstimator, fault))
          /\ IF estimate_costs(CostEstimator, fault) = "raised"
             THEN Escape
             ELSE pc' = "initialize_terraform" /\ exit_status' = exit_status
    /\ UNCHANGED <<AWS_AVAILABLE, GCP_AVAILABLE, CostEstimator, args, prov>>
    /\ UNCHANGED driftvars
    /\ UNCHANGED callvars

\* initialize_terraform(): terraform init; a failed init ends the run
InitializeTerraform ==
    /\ Enter("initialize_terraform")
    /\ \E outcome \in ToolOutcomes :
        /\ Leave(outcome)
        /\ CASE outcome = "ok" ->
                   pc' = "plan_terraform" /\ exit_status' = exit_status
            [] outcome = "CalledProcessError" -> Exit(1)
            [] outcome = "Exception" -> Escape
    /\ UNCHANGED <<CostEstimator, args, prov>>
    /\ UNCHANGED estvars
    /\ UNCHANGED driftvars
    /\ UNCHANGED callvars

\* the result of plan_terraform() not looked at
PlanTerraformUngated ==
    /\ Enter("plan_terraform")
    /\ \E outcome \in ToolOutcomes :
        /\ Leave(outcome)
        /\ CASE outcome \in {"ok", "CalledProcessError"} ->
                   pc' = "apply_terraform" /\ exit_status' = exit_status
            [] outcome = "Exception" -> Escape
    /\ UNCHANGED <<CostEstimator, args, prov>>
    /\ UNCHANGED estvars
    /\ UNCHANGED driftvars
    /\ UNCHANGED callvars

\* plan_terraform() returns False on a failed plan and provision() exits
PlanTerraform ==
    /\ Enter("plan_terraform")
    /\ \E outcome \in ToolOutcomes :
        /\ Leave(outcome)
        /\ CASE outcome = "ok" ->
                   pc' = "apply_terraform" /\ exit_status' = exit_status
            [] outcome = "CalledProcessError" -> Exit(1)
            [] outcome = "Exception" -> Escape
    /\ UNCHANGED <<CostEstimator, args, prov>>
    /\ UNCHANGED estvars
    /\ UNCHANGED driftvars
    /\ UNCHANGED callvars

\* apply_terraform() returns False on a failed apply and provision() exits
ApplyTerraform ==
    /\ Enter("apply_terraform")
    /\ \E outcome \in ToolOutcomes :
        /\ Leave(outcome)
        /\ CASE outcome = "ok" ->
                   pc' = "run_ansible" /\ exit_status' = exit_status
            [] outcome = "CalledProcessError" -> Exit(1)
            [] outcome = "Exception" -> Escape
    /\ UNCHANGED <<CostEstimator, args, prov>>
    /\ UNCHANGED estvars
    /\ UNCHANGED driftvars
    /\ UNCHANGED callvars

\* a failed playbook ending the run as a failed apply does
RunAnsibleGated ==
    /\ Enter("run_ansible")
    /\ \E outcome \in ToolOutcomes :
        /\ Leave(outcome)
        /\ CASE outcome = "ok" ->
                   pc' = "complete" /\ exit_status' = exit_status
            [] outcome = "CalledProcessError" -> Exit(1)
            [] outcome = "Exception" -> Escape
    /\ UNCHANGED <<CostEstimator, args, prov>>
    /\ UNCHANGED estvars
    /\ UNCHANGED driftvars
    /\ UNCHANGED callvars

\* run_ansible() returns False on a failed playbook; provision() warns and
\* goes on
RunAnsible ==
    /\ Enter("run_ansible")
    /\ \E outcome \in ToolOutcomes :
        /\ Leave(outcome)
        /\ CASE outcome \in {"ok", "CalledProcessError"} ->
                   pc' = "complete" /\ exit_status' = exit_status
            [] outcome = "Exception" -> Escape
    /\ UNCHANGED <<CostEstimator, args, prov>>
    /\ UNCHANGED estvars
    /\ UNCHANGED driftvars
    /\ UNCHANGED callvars

\* the success banner and the listing of the Terraform outputs, which
\* get_terraform_outputs() gives as {} when the command fails; main()
\* then returns and the process ends with status 0
Complete ==
    /\ Enter("complete")
    /\ \E outcome \in ToolOutcomes :
        /\ Leave(outcome)
        /\ CASE outcome \in {"ok", "CalledProcessError"} ->
                   /\ pc' = "done"
                   /\ exit_status' = IF args.entry = "main"
                                     THEN [kind |-> "exit", code |-> 0]
                                     ELSE exit_status
            [] outcome = "Exception" -> Escape
    /\ UNCHANGED <<CostEstimator, args, prov>>
    /\ UNCHANGED estvars
    /\ UNCHANGED driftvars
    /\ UNCHANGED callvars

ProvNext ==
    \/ Main
    \/ Call
    \/ CheckPrerequisites
    \/ EstimateCosts
    \/ InitializeTerraform
    \/ PlanTerraform
    \/ ApplyTerraform
    \/ RunAnsible
    \/ Complete

ProvisionSpec == ProvInit /\ [][ProvNext]_vars

(***************************************************************************)
(* The drift detector (scripts/drift_detector.py).  A text is a sequence   *)
(* of lines, as str.split('\n') gives them; a line is its words, as        *)
(* str.split() gives them, and whether white space precedes the first.    *)
(***************************************************************************)
Line(indent, words) == [indent |-> indent, words |-> words]

\* the one-line text of the words
Text(words) == <<Line(FALSE, words)>>

\* a + " " + b for texts a and b: the last line of a runs on into the
\* first line of b
TextJoin(a, b) ==
    SubSeq(a, 1, Len(a) - 1)
    \o <<Line(a[Len(a)].indent, a[Len(a)].words \o b[1].words)>>
    \o Tail(b)

\* line.strip(): the white space around the line removed
Strip(line) == Line(FALSE, line.words)

\* line.startswith(c) for a one-character c: the symbols terraform puts in
\* front of a resource are words of their own
StartsWith(line, c) ==
    /\ ~line.indent
    /\ line.words # <<>>
    /\ line.words[1] = c

\* phrase in line, the phrase being a sequence of whole words
Contains(line, phrase) ==
    \E i \in 1..(Len(line.words) - Len(phrase) + 1) :
        SubSeq(line.words, i, i + Len(phrase) - 1) = phrase

\* line.split()[1] if len(line.split()) > 1 else line
ResourceOf(line) ==
    IF Len(line.words) > 1 THEN <<line.words[2]>> ELSE line.words

\* the lines of plan_output that the loop of parse_drift_changes records
\* under the symbol and the phrase, in order, as their resources
Recorded(plan_output, symbol, phrase) ==
    LET Hit(line) == /\ ~Contains(Strip(line), <<"Plan:">>)
                     /\ StartsWith(Strip(line), symbol)
                     /\ Contains(Strip(line), phrase)
        hits == SelectSeq(plan_output, Hit)
    IN  [i \in 1..Len(hits) |-> ResourceOf(Strip(hits[i]))]

\* a destroyed resource recorded whatever symbol its line starts with
ParseDestroyAnySymbol(plan_output) ==
    [resources_to_add |->
         Recorded(plan_output, "+", <<"will", "be", "created">>),
     resources_to_change |->
         Recorded(plan_output, "~", <<"will", "be", "updated">>),
     resources_to_destroy |->
         Recorded(plan_output, "-", <<"will", "be", "destroyed">>)
         \o Recorded(plan_output, "+", <<"will", "be", "destroyed">>)
         \o Recorded(plan_output, "~", <<"will", "be", "destroyed">>)]

parse_drift_changes(plan_output) ==
    [resources_to_add |->
         Recorded(plan_output, "+", <<"will", "be", "created">>),
     resources_to_change |->
         Recorded(plan_output, "~", <<"will", "be", "updated">>),
     resources_to_destroy |->
         Recorded(plan_output, "-", <<"will", "be", "destroyed">>)]

\* str.upper() on the provider names
Upper(s) ==
    CASE s = "aws" -> "AWS"
      [] s = "gcp" -> "GCP"
      [] OTHER -> s

\* project_root / "terraform" / cloud
DefaultTerraformDir(cloud) ==
    CASE cloud = "aws" -> "terraform/aws"
      [] cloud = "gcp" -> "terraform/gcp"
      [] OTHER -> "terraform/"

\* DriftDetector(cloud, terraform_dir), path_kind being what the path of
\* the terraform directory is on disk: a directory, a file, or missing
DriftDetector(cloud, terraform_dir, path_kind) ==
    IF path_kind = "missing"
    THEN [kind |-> "raise", exc |-> "ValueError",
          text |-> "Terraform directory not found"]
    ELSE [kind |-> "object",
          cloud |-> Lower(cloud),
          terraform_dir |-> IF terraform_dir # None THEN terraform_dir
                            ELSE DefaultTerraformDir(Lower(cloud))]

\* what subprocess.run of terraform plan can do: end with an exit code,
\* run into the timeout, raise another Exception (terraform not installed)
NoText == Text(<<>>)

Exited(returncode, stdout, stderr) ==
    [kind |-> "exit", returncode |-> returncode,
     stdout |-> stdout, stderr |-> stderr]

\* the tuple run_terraform_plan returns
Result(has_drift, plan_output) ==
    [kind |-> "return", has_drift |-> has_drift, plan_output |-> plan_output]

\* run_terraform_plan(): os.chdir runs before the try block, so its error
\* is not handled; what subprocess.run does is
run_terraform_plan(self, path_kind, outcome) ==
    IF path_kind = "file"
    THEN [kind |-> "raise", exc |-> "NotADirectoryError"]
    ELSE IF path_kind = "missing"
    THEN [kind |-> "raise", exc |-> "FileNotFoundError"]
    ELSE CASE outcome.kind = "exit" /\ outcome.returncode = 0 ->
                Result(FALSE, Text(<<"No", "drift", "detected">>))
           [] outcome.kind = "exit" /\ outcome.returncode = 2 ->
                Result(TRUE, outcome.stdout)
           [] outcome.kind = "exit" /\ outcome.returncode \notin {0, 2} ->
                Result(FALSE,
                       TextJoin(Text(<<"Error", "running", "terraform",
                                       "plan:">>), outcome.stderr))
           [] outcome.kind = "TimeoutExpired" ->
                Result(FALSE, Text(<<"Terraform", "plan", "timed", "out">>))
           [] outcome.kind = "Exception" ->
                Result(FALSE,
                       TextJoin(Text(<<"Exception", "during", "drift",
                                       "detection:">>), outcome.text))

\* one section of the report: nothing for an empty list, else the title,
\* a line "  <symbol> <resource>" per resource, and an empty line
Section(title, symbol, resources) ==
    IF resources = <<>> THEN <<>>
    ELSE Text(title)
         \o [i \in 1..Len(resources) |->
                Line(TRUE, <<symbol>> \o resources[i])]
         \o NoText

\* c * 80
Rule(c) ==
    IF c = "="
    THEN Text(<<"================================================================================">>)
    ELSE Text(<<"--------------------------------------------------------------------------------">>)

NoDriftLine ==
    Line(FALSE, <<"No", "drift", "detected.", "Infrastructure", "matches",
                  "configuration.">>)

\* the lines every report starts with; the time stamp is the clock's, and
\* the pictographs in front of the two verdict lines are left out
ReportHead(self) ==
    Rule("=")
    \o Text(<<"TERRAFORM", "DRIFT", "DETECTION", "REPORT">>)
    \o Rule("=")
    \o Text(<<"Cloud", "Provider:", Upper(self.cloud)>>)
    \o Text(<<"Timestamp:", "now">>)
    \o Text(<<"Terraform", "Directory:", self.terraform_dir>>)
    \o NoText

\* the lines of a report of drift, given the parsed summary
DriftLines(summary, plan_output) ==
    Text(<<"DRIFT", "DETECTED!">>)
    \o NoText
    \o Section(<<"Resources", "to", "be", "added:">>, "+",
               summary.resources_to_add)
    \o Section(<<"Resources", "to", "be", "modified:">>, "~",
               summary.resources_to_change)
    \o Section(<<"Resources", "to", "be", "destroyed:">>, "-",
               summary.resources_to_destroy)
    \o Text(<<"Full", "Terraform", "Plan", "Output:">>)
    \o Rule("-")
    \o plan_output

\* the error text of a failed plan put into the report
GenerateReportWithOutput(self, has_drift, plan_output) ==
    ReportHead(self)
    \o (IF has_drift
        THEN DriftLines(parse_drift_changes(plan_output), plan_output)
        ELSE <<NoDriftLine>> \o plan_output)
    \o Rule("=")

generate_drift_report(self, has_drift, plan_output) ==
    ReportHead(self)
    \o (IF has_drift
        THEN DriftLines(parse_drift_changes(plan_output), plan_output)
        ELSE <<NoDriftLine>>)
    \o Rule("=")

\* what the path project_root/reports can be when the report is saved: a
\* directory, missing, a file, or a directory that takes no new file
ReportsKinds == {"directory", "missing", "file", "unwritable"}

\* save_report(): mkdir(exist_ok=True) makes the directory when it is
\* missing and raises on a file; write_text raises when the file cannot
\* be written; else the file written is
\* reports/drift_report_<cloud>_<time>.txt
save_report(self, text, reports_kind) ==
    CASE reports_kind = "file" ->
            [kind |-> "raise", exc |-> "FileExistsError"]
      [] reports_kind = "unwritable" ->
            [kind |-> "raise", exc |-> "PermissionError"]
      [] OTHER ->
            [kind |-> "return",
             file |-> [directory |-> "reports", cloud |-> self.cloud,
                       text |-> text]]

\* the message send_alert() hands to the SMTP server
Message(self, text, email_config) ==
    [From |-> Get(email_config, "from", None),
     To |-> Get(email_config, "to", None),
     Subject |-> <<"Terraform", "Drift", "Alert", "-", Upper(self.cloud)>>,
     body |-> text]

\* send_alert(): the messages sent after it; an SMTP failure is caught
\* and only printed
send_alert(sent, self, text, email_config, smtp) ==
    IF smtp = "ok" THEN Append(sent, Message(self, text, email_config))
    ELSE sent

\* the lines terraform plan can print: a symbol, perhaps a resource,
\* perhaps one of the three phrases, perhaps a "Plan:" word, perhaps
\* indented
Phrases ==
    {<<"will", "be", "created">>, <<"will", "be", "updated">>,
     <<"will", "be", "destroyed">>}

PlanLines ==
    {Line(indent, <<symbol>> \o resource \o phrase \o plan_word) :
        indent \in BOOLEAN,
        symbol \in {"+", "~", "-", "#"},
        resource \in {<<>>, <<"r">>},
        phrase \in Phrases \cup {<<>>},
        plan_word \in {<<>>, <<"Plan:">>}}

\* a plan of several lines, as terraform prints it
TypicalPlan ==
    <<Line(FALSE, <<>>),
      Line(TRUE, <<"+", "a", "will", "be", "created">>),
      Line(TRUE, <<"+", "b", "will", "be", "created">>),
      Line(TRUE, <<"~", "c", "will", "be", "updated">>),
      Line(TRUE, <<"-", "d", "will", "be", "destroyed">>),
      Line(FALSE, <<"Plan:", "2", "to", "add,", "1", "to", "change,",
                    "1", "to", "destroy.">>)>>

Stdouts == {<<line>> : line \in PlanLines} \cup {NoText, TypicalPlan}

Stderrs == {NoText, Text(<<"Error:", "no", "credentials">>)}

PlanOutcomes ==
    {Exited(2, stdout, NoText) : stdout \in Stdouts}
    \cup {Exited(returncode, stdout, stderr) :
             returncode \in {0, 1, 3},
             stdout \in {NoText, TypicalPlan},
             stderr \in Stderrs}
    \cup {[kind |-> "TimeoutExpired"],
          [kind |-> "Exception",
           text |-> Text(<<"No", "such", "file", "or", "directory:",
                           "terraform">>)]}

\* the --email-config file: not given, unreadable or not JSON, or a JSON
\* object; the dict a direct caller passes
EmailConfigs ==
    {[kind |-> "none"],
     [kind |-> "dict", value |-> EmptyDict],
     [kind |-> "dict", value |-> [from |-> "bot", to |-> "ops"]]}

DriftClouds == {"aws", "Gcp"}

DriftCommandLines ==
    [entry : {"main"}, cloud : DriftClouds, terraform_dir : {None, "tf"},
     path_kind : {"directory", "file", "missing"}, no_alert : BOOLEAN,
     email_config : EmailConfigs \cup {[kind |-> "unreadable"]}]

DriftDirectCalls ==
    [entry : {"detect_drift"}, cloud : DriftClouds,
     terraform_dir : {None, "tf"},
     path_kind : {"directory", "file", "missing"}, no_alert : BOOLEAN,
     email_config : EmailConfigs]

DriftInit ==
    /\ AWS_AVAILABLE = FALSE
    /\ GCP_AVAILABLE = FALSE
    /\ est = NoCall
    /\ call = NoCall
    /\ ret = NoCall
    /\ printed = NoCall
    /\ NoRun
    /\ dargs \in DriftCommandLines \cup DriftDirectCalls
    /\ detector = NoCall
    /\ dpc = "start"
    /\ terraform = NoCall
    /\ plan = NoCall
    /\ drift_summary = NoCall
    /\ report = <<>>
    /\ saved = <<>>
    /\ alerts = <<>>
    /\ detected = NoCall
    /\ drift_exit = NoCall
    /\ NoCalls

\* sys.exit(status) in the drift command
DriftExit(status) ==
    /\ dpc' = "exited"
    /\ drift_exit' = [kind |-> "exit", code |-> status]

\* an exception leaves detect_drift or the constructor: main() catches
\* it and exits with status 1, a direct caller sees it
DriftEscape ==
    IF dargs.entry = "main" THEN DriftExit(1)
    ELSE dpc' = "raised" /\ drift_exit' = drift_exit

\* main() up to the call of detect_drift: argparse rejects a provider
\* outside its choices with status 2; the email configuration is read,
\* then the detector is constructed
DriftMain ==
    /\ dpc = "start" /\ dargs.entry = "main"
    /\ IF dargs.cloud \notin {"aws", "gcp"}
       THEN DriftExit(2) /\ detector' = detector
       ELSE IF dargs.email_config.kind = "unreadable"
       THEN DriftExit(1) /\ detector' = detector
       ELSE \E d \in {DriftDetector(dargs.cloud, dargs.terraform_dir,
                                    dargs.path_kind)} :
              IF d.kind = "raise"
              THEN DriftExit(1) /\ detector' = detector
              ELSE /\ detector' = d
                   /\ dpc' = "detect_drift"
                   /\ drift_exit' = drift_exit
    /\ UNCHANGED <<dargs, terraform, plan, drift_summary, report, saved,
                   alerts, detected>>
    /\ UNCHANGED estvars
    /\ UNCHANGED provvars
    /\ UNCHANGED callvars

\* a caller constructs the DriftDetector itself and calls detect_drift()
DriftCall ==
    /\ dpc = "start" /\ dargs.entry = "detect_drift"
    /\ \E d \in {DriftDetector(dargs.cloud, dargs.terraform_dir,
                               dargs.path_kind)} :
          IF d.kind = "raise"
          THEN dpc' = "raised" /\ detector' = detector
          ELSE detector' = d /\ dpc' = "detect_drift"
    /\ UNCHANGED <<dargs, terraform, plan, drift_summary, report, saved,
                   alerts, detected, drift_exit>>
    /\ UNCHANGED estvars
    /\ UNCHANGED provvars
    /\ UNCHANGED callvars

\* if email_config: None and the empty dict are false
Truthy(email_config) ==
    email_config.kind = "dict" /\ DOMAIN email_config.value # {}

\* detect_drift() after run_terraform_plan() returned r: the report is
\* generated and printed, then saved, and an exception of save_report()
\* leaves detect_drift(); drift is alerted on request, by mail if there is
\* an email configuration; has_drift is returned
DetectDriftAfter(outcome, r, text, written, smtp) ==
    /\ terraform' = outcome
    /\ plan' = r
    /\ drift_summary' = IF r.has_drift
                        THEN parse_drift_changes(r.plan_output)
                        ELSE drift_summary
    /\ report' = text
    /\ IF written.kind = "raise"
       THEN /\ detected' = written
            /\ DriftEscape
            /\ UNCHANGED <<saved, alerts>>
       ELSE /\ saved' = Append(saved, written.file)
            /\ alerts' = IF r.has_drift /\ ~dargs.no_alert
                            /\ Truthy(dargs.email_config)
                         THEN send_alert(alerts, detector, text,
                                         dargs.email_config.value, smtp)
                         ELSE alerts
            /\ detected' = [kind |-> "return", value |-> r.has_drift]
            /\ dpc' = "returned"
            /\ drift_exit' = drift_exit

\* detect_drift(): the terraform directory may have been removed since
\* the constructor looked; an exception of run_terraform_plan() leaves
\* detect_drift() before anything is generated or saved
DetectDrift ==
    /\ dpc = "detect_drift"
    /\ \E outcome \in PlanOutcomes, smtp \in {"ok", "SMTPException"},
          reports_kind \in ReportsKinds,
          path_kind \in {dargs.path_kind, "missing"} :
          /\ \E r \in {run_terraform_plan(detector, path_kind, outcome)} :
                IF r.kind = "raise"
                THEN /\ terraform' = terraform
                     /\ plan' = r
                     /\ detected' = r
                     /\ DriftEscape
                     /\ UNCHANGED <<drift_summary, report, saved, alerts>>
                ELSE \E text \in {generate_drift_report(
                                     detector, r.has_drift, r.plan_output)} :
                        DetectDriftAfter(outcome, r, text,
                                         save_report(detector, text,
                                                     reports_kind),
                                         smtp)
    /\ UNCHANGED <<dargs, detector>>
    /\ UNCHANGED estvars
    /\ UNCHANGED provvars
    /\ UNCHANGED callvars

\* main() after detect_drift() returned: sys.exit(1 if has_drift else 0)
DriftMainExit ==
    /\ dpc = "returned" /\ dargs.entry = "main"
    /\ DriftExit(IF detected.value THEN 1 ELSE 0)
    /\ UNCHANGED <<dargs, detector, terraform, plan, drift_summary, report,
                   saved, alerts, detected>>
    /\ UNCHANGED estvars
    /\ UNCHANGED provvars
    /\ UNCHANGED callvars

DriftNext ==
    \/ DriftMain
    \/ DriftCall
    \/ DetectDrift
    \/ DriftMainExit

DriftSpec == DriftInit /\ [][DriftNext]_vars

(***************************************************************************)
(* Calls of estimate() side by side.  A call is a frame of the locals of   *)
(* estimate() and _estimate_aws_cost() or _estimate_gcp_cost(); a step of  *)
(* a call is a stretch of their code, and it reads the estimator the call  *)
(* was made on from the objects as they are at that step.                  *)
(***************************************************************************)
\* the estimator objects in existence and the calls made on them
ObjectIds == {1, 2}

CallIds == {1, 2}

\* the estimators the objects can be: AWS with its client and with none,
\* GCP, and an unsupported provider
SomeEstimators ==
    {__init__("aws", "dev", TRUE, TRUE, TRUE, TRUE),
     __init__("aws", "prod", FALSE, TRUE, TRUE, FALSE),
     __init__("gcp", "prod", TRUE, TRUE, TRUE, TRUE),
     __init__("azure", "dev", TRUE, TRUE, TRUE, TRUE)}

\* the frame of a call not yet begun on the object self
NewFrame(self) ==
    [self |-> self, pc |-> "idle", live |-> "unused",
     instance_type |-> None, num_instances |-> 0,
     instance_hourly |-> NoCall, compute_monthly |-> FZero,
     storage_monthly |-> FZero, db_monthly |-> FZero,
     ret |-> NoCall, overlapped |-> FALSE]

ConcurrentInit ==
    /\ AWS_AVAILABLE = TRUE
    /\ GCP_AVAILABLE = TRUE
    /\ est = NoCall
    /\ call = NoCall
    /\ ret = NoCall
    /\ printed = NoCall
    /\ NoRun
    /\ NoDrift
    /\ estimators \in [ObjectIds -> SomeEstimators]
    /\ \E target \in [CallIds -> ObjectIds] :
          /\ target[1] = 1
          /\ frames = [k \in CallIds |-> NewFrame(target[k])]

\* the call is between its first step and its return
InFlight(frame) == frame.pc \notin {"idle", "returned", "raised"}

\* the call k takes a step to the frame given; the frame notes whether
\* another call was in flight at one of its steps
StepTo(k, frame) ==
    /\ frames' = [frames EXCEPT ![k] =
                     [frame EXCEPT !.overlapped =
                         @ \/ \E j \in CallIds \ {k} : InFlight(frames[j])]]
    /\ UNCHANGED estimators
    /\ UNCHANGED estvars
    /\ UNCHANGED provvars
    /\ UNCHANGED driftvars

\* estimate() lines 249-256 and the first two lines of the provider's
\* estimator: the provider is looked at, the type and the count resolved
BeginEstimate(k) ==
    /\ frames[k].pc = "idle"
    /\ \E self \in {estimators[frames[k].self]} :
          IF self.cloud \notin {"aws", "gcp"}
          THEN StepTo(k, [frames[k] EXCEPT
                   !.pc = "raised",
                   !.ret = [kind |-> "raise", exc |-> "ValueError",
                            text |-> "Unsupported cloud provider: ",
                            arg |-> self.cloud]])
          ELSE StepTo(k, [frames[k] EXCEPT
                   !.pc = "sized",
                   !.instance_type = _get_instance_type(self),
                   !.num_instances = num_instances(self.environment)])

\* lines 121-124: the AWS estimator looks at its client; with a client
\* the request to the live source goes out and the call waits for the
\* answer, without one the call goes on to the static table
AskLivePrice(k) ==
    /\ frames[k].pc = "sized"
    /\ \E self \in {estimators[frames[k].self]} :
          /\ self.cloud = "aws"
          /\ StepTo(k, [frames[k] EXCEPT
                 !.pc = IF self.pricing_client # None
                        THEN "waiting" ELSE "answered"])

\* the client of the estimator dropped when the live request raises
ReceiveAnswerDropsClient(k) ==
    /\ frames[k].pc = "waiting"
    /\ \E live \in LiveResponses :
          /\ frames' = [frames EXCEPT ![k] =
                [frames[k] EXCEPT
                    !.pc = "answered",
                    !.live = live,
                    !.instance_hourly =
                        IF live \in LiveParsed
                        THEN FloatLit(<<5>>, 2) ELSE NoCall,
                    !.overlapped =
                        @ \/ \E j \in CallIds \ {k} : InFlight(frames[j])]]
          /\ estimators' =
                IF live = "raise"
                THEN [estimators EXCEPT
                         ![frames[k].self].pricing_client = None]
                ELSE estimators
    /\ UNCHANGED estvars
    /\ UNCHANGED provvars
    /\ UNCHANGED driftvars

\* lines 124-139: the answer of the live source arrives: a price list
\* that is not empty and whose first entry parses gives 0.05; a request
\* that raised, an empty list or a response that does not parse leaves the
\* price unset
ReceiveAnswer(k) ==
    /\ frames[k].pc = "waiting"
    /\ \E live \in LiveResponses :
          StepTo(k, [frames[k] EXCEPT
              !.pc = "answered",
              !.live = live,
              !.instance_hourly =
                  IF live \in LiveParsed THEN FloatLit(<<5>>, 2) ELSE NoCall])

\* lines 141-145 (AWS): a price still unset is read from the static table
\* under the type and the estimator's region; lines 199-201 (GCP): the
\* price is read from the static table
PriceFromTable(k) ==
    /\ \E self \in {estimators[frames[k].self]} :
          /\ \/ frames[k].pc = "answered"
             \/ frames[k].pc = "sized" /\ self.cloud = "gcp"
          /\ StepTo(k, [frames[k] EXCEPT
                 !.pc = "priced",
                 !.instance_hourly =
                     IF self.cloud = "gcp"
                     THEN gcp_instance_hourly(self, frames[k].instance_type)
                     ELSE IF frames[k].instance_hourly # NoCall THEN @
                     ELSE Get(Get(AWS_PRICING_FALLBACK,
                                  frames[k].instance_type, EmptyDict),
                              self.region, FloatLit(<<5>>, 2))])

\* lines 147-152 (AWS) and 203-208 (GCP): the compute charge and the
\* storage of the instances
ComputeAndStorage(k) ==
    /\ frames[k].pc = "priced"
    /\ \E self \in {estimators[frames[k].self]} :
          StepTo(k, [frames[k] EXCEPT
              !.pc = "computed",
              !.compute_monthly =
                  compute_monthly(frames[k].instance_hourly,
                                  frames[k].num_instances),
              !.storage_monthly =
                  IF self.cloud = "aws"
                  THEN aws_storage_monthly(frames[k].num_instances, FALSE)
                  ELSE gcp_storage_monthly(frames[k].num_instances, FALSE)])

\* lines 157-166 (AWS) and 213-222 (GCP): the database charge and the
\* database's storage, when the estimator has the database enabled
Database(k) ==
    /\ frames[k].pc = "computed"
    /\ \E self \in {estimators[frames[k].self]} :
          StepTo(k, [frames[k] EXCEPT
              !.pc = "billed",
              !.db_monthly =
                  db_monthly(self.enable_db,
                      IF self.cloud = "aws"
                      THEN aws_db_hourly(self, _get_db_instance_type(self))
                      ELSE gcp_db_hourly(self, _get_db_instance_type(self))),
              !.storage_monthly =
                  IF ~self.enable_db THEN @
                  ELSE IF self.cloud = "aws"
                  THEN aws_storage_monthly(frames[k].num_instances, TRUE)
                  ELSE gcp_storage_monthly(frames[k].num_instances, TRUE)])

\* lines 168-191 (AWS) and 224-247 (GCP): the total, and the dict built
\* from the locals and returned
ReturnBreakdown(k) ==
    /\ frames[k].pc = "billed"
    /\ \E self \in {estimators[frames[k].self]} :
          StepTo(k, [frames[k] EXCEPT
              !.pc = "returned",
              !.ret = [kind |-> "return",
                       value |-> cost_items(self, frames[k].num_instances,
                                            frames[k].instance_type,
                                            frames[k].instance_hourly,
                                            frames[k].compute_monthly,
                                            frames[k].storage_monthly,
                                            frames[k].db_monthly)]])

ConcurrentNext ==
    \E k \in CallIds :
        \/ BeginEstimate(k)
        \/ AskLivePrice(k)
        \/ ReceiveAnswer(k)
        \/ PriceFromTable(k)
        \/ ComputeAndStorage(k)
        \/ Database(k)
        \/ ReturnBreakdown(k)

ConcurrentSpec == ConcurrentInit /\ [][ConcurrentNext]_vars

(***************************************************************************)
(* The properties.  est is the estimator the latest call ran on: a new     *)
(* estimator starts with no call.                                          *)
(***************************************************************************)
Providers == {"aws", "gcp"}
Tiers == {"dev", "staging", "prod"}

Returned == ret.kind = "return"
KnownPair == est.cloud \in Providers /\ est.environment \in Tiers

\* whether the compute price of the latest call came from the live source
LivePriced == call.kind = "estimate" /\ call.live \in LiveParsed

\* C1: for every provider in {aws, gcp}, tier in {dev, staging, prod} and
\* database flag, the returned breakdown has total_yearly equal to the
\* float product total_monthly * 12.
C1_YearlyIsTwelveMonths ==
    (Returned /\ KnownPair)
        => ret.value.total_yearly = FMul(ret.value.total_monthly, FFromInt(12))

C1_Witness ==
    /\ Returned
    /\ est.cloud = "gcp" /\ est.environment = "prod" /\ est.enable_db
    /\ ret.value.total_yearly = FloatLit(<<2, 1, 6, 6, 6>>, 1)

\* C2: for both providers and either database flag, the compute instance
\* count of the returned breakdown is 2 exactly when the tier is prod and
\* 1 otherwise.
C2_InstanceCount ==
    Returned
        => /\ ret.value.compute.instances \in {1, 2}
           /\ ret.value.compute.instances = 2 <=> est.environment = "prod"

C2_Witness ==
    /\ Returned
    /\ est.environment = "prod"
    /\ ret.value.compute.instances = 2

\* C3: for every provider and tier, with the database flag false the
\* breakdown has database.monthly = 0 and database.type None; with the
\* flag true database.monthly > 0 and database.type is the tier's database
\* instance type.
C3_DatabaseItem ==
    (Returned /\ KnownPair)
        => IF est.enable_db
           THEN /\ FLess(FZero, ret.value.database.monthly)
                /\ ret.value.database.type = db_map[est.cloud][est.environment]
           ELSE /\ ret.value.database.monthly = FFromInt(0)
                /\ ret.value.database.type = None

C3_Witness ==
    /\ Returned /\ KnownPair
    /\ est.enable_db
    /\ ret.value.database.type = "db.t3.small"
    /\ FLess(FZero, ret.value.database.monthly)

\* C4: for every provider and tier, the total_monthly of the estimate with
\* the database enabled is strictly greater than the total_monthly of the
\* estimate of the same estimator, under the same behaviour of the live
\* source, with the database disabled.
C4_DatabaseRaisesTotal ==
    (Returned /\ KnownPair /\ est.enable_db)
        => \A live \in LiveResponses :
              (call.live \in {live, "unused"})
                  => FLess(estimate([est EXCEPT !.enable_db = FALSE],
                                    live).value.total_monthly,
                           ret.value.total_monthly)

C4_Witness ==
    /\ Returned /\ KnownPair /\ est.enable_db
    /\ est.cloud = "aws" /\ est.environment = "prod"
    /\ LivePriced
    /\ FLess(FFromInt(100), ret.value.total_monthly)

\* C5: for a provider other than aws and gcp, estimate() raises ValueError
\* with the unsupported-provider message naming the provider, and returns
\* no breakdown.
C5_UnsupportedProviderRaises ==
    (call.kind = "estimate" /\ est.cloud \notin Providers)
        => /\ ret.kind = "raise"
           /\ ret.exc = "ValueError"
           /\ ret.text = "Unsupported cloud provider: "
           /\ ret.arg = est.cloud

C5_Witness ==
    /\ call.kind = "estimate"
    /\ est.cloud = "azure"
    /\ ret.kind = "raise"

AwsDevNoDb ==
    Returned /\ est.cloud = "aws" /\ est.environment = "dev" /\ ~est.enable_db

\* the items of the AWS dev scenario that the claim and the code agree on
\* when the price comes from the static table
C6_Items ==
    /\ est.region = "us-east-1"
    /\ ret.value.compute.type = "t3.medium"
    /\ ret.value.compute.instances = 1
    /\ ret.value.storage.gb = 30
    /\ ret.value.storage.monthly = FloatLit(<<3, 0, 0>>, 2)
    /\ ret.value.data_transfer.monthly = FFromInt(10)
    /\ ret.value.database.monthly = FFromInt(0)

\* C6 as stated: estimate(AWS, dev, db=false) yields region us-east-1,
\* compute type t3.medium, 1 instance, compute hourly 0.0416, compute
\* monthly 30.368, storage 30 GB costing 3.00, data transfer 10, database
\* monthly 0, total monthly 43.368 and total yearly 520.416.
C6_Original ==
    AwsDevNoDb
        => /\ C6_Items
           /\ ret.value.compute.hourly = FloatLit(<<4, 1, 6>>, 4)
           /\ ret.value.compute.monthly = FloatLit(<<3, 0, 3, 6, 8>>, 3)
           /\ ret.value.total_monthly = FloatLit(<<4, 3, 3, 6, 8>>, 3)
           /\ ret.value.total_yearly = FloatLit(<<5, 2, 0, 4, 1, 6>>, 3)

\* C6 (amended): estimate(AWS, dev, db=false) yields region us-east-1,
\* compute type t3.medium, 1 instance, storage 30 GB costing 3.00, data
\* transfer 10 and database monthly 0; when the live source gives no price,
\* compute hourly 0.0416, compute monthly 30.368, total monthly
\* 43.367999999999995 and total yearly 520.4159999999999 (the float sums);
\* when the live source answers, compute hourly 0.05, compute monthly 36.5,
\* total monthly 49.5 and total yearly 594.
C6_AwsDevScenario ==
    AwsDevNoDb
        => /\ C6_Items
           /\ IF LivePriced
              THEN /\ ret.value.compute.hourly = FloatLit(<<5>>, 2)
                   /\ ret.value.compute.monthly = FloatLit(<<3, 6, 5>>, 1)
                   /\ ret.value.total_monthly = FloatLit(<<4, 9, 5>>, 1)
                   /\ ret.value.total_yearly = FFromInt(594)
              ELSE /\ ret.value.compute.hourly = FloatLit(<<4, 1, 6>>, 4)
                   /\ ret.value.compute.monthly = FloatLit(<<3, 0, 3, 6, 8>>, 3)
                   /\ ret.value.total_monthly =
                          FloatLit(<<4, 3, 3, 6, 7, 9, 9, 9, 9, 9, 9, 9, 9, 9,
                                     9, 9, 5>>, 15)
                   /\ ret.value.total_yearly =
                          FloatLit(<<5, 2, 0, 4, 1, 5, 9, 9, 9, 9, 9, 9, 9, 9,
                                     9, 9>>, 13)

C6_Witness ==
    /\ AwsDevNoDb
    /\ ~LivePriced
    /\ FLess(ret.value.total_monthly, FloatLit(<<4, 3, 3, 6, 8>>, 3))
    /\ FLess(FloatLit(<<4, 3, 3, 6, 7, 9>>, 4), ret.value.total_monthly)

GcpProdDb ==
    Returned /\ est.cloud = "gcp" /\ est.environment = "prod" /\ est.enable_db

\* the items of the GCP prod scenario that the claim and the code agree on
C7_Items ==
    /\ est.region = "us-west1"
    /\ ret.value.compute.type = "n1-standard-2"
    /\ ret.value.compute.instances = 2
    /\ ret.value.compute.hourly = FloatLit(<<9, 5>>, 3)
    /\ ret.value.compute.monthly = FloatLit(<<1, 3, 8, 7, 0>>, 2)
    /\ ret.value.storage.gb = 80
    /\ ret.value.data_transfer.monthly = FFromInt(10)
    /\ ret.value.database.type = "db-g1-small"
    /\ ret.value.database.monthly = FloatLit(<<1, 8, 2, 5>>, 2)

\* C7 as stated: estimate(GCP, prod, db=true) yields region us-west1,
\* compute type n1-standard-2, 2 instances, compute hourly 0.095, compute
\* monthly 138.70, storage 80 GB costing 13.60, data transfer 10, db type
\* db-g1-small, db monthly 18.25 and total monthly 180.55.
C7_Original ==
    GcpProdDb
        => /\ C7_Items
           /\ ret.value.storage.monthly = FloatLit(<<1, 3, 6, 0>>, 2)
           /\ ret.value.total_monthly = FloatLit(<<1, 8, 0, 5, 5>>, 2)

\* C7 (amended): estimate(GCP, prod, db=true) yields region us-west1,
\* compute type n1-standard-2, 2 instances, compute hourly 0.095, compute
\* monthly 138.70, storage 80 GB costing 13.600000000000001, data transfer
\* 10, db type db-g1-small, db monthly 18.25 and total monthly
\* 180.54999999999998 (the float sums).
C7_GcpProdScenario ==
    GcpProdDb
        => /\ C7_Items
           /\ ret.value.storage.monthly =
                  FloatLit(<<1, 3, 6, 0, 0, 0, 0, 0, 0, 0, 0, 0, 0, 0, 0, 0,
                             1>>, 15)
           /\ ret.value.total_monthly =
                  FloatLit(<<1, 8, 0, 5, 4, 9, 9, 9, 9, 9, 9, 9, 9, 9, 9, 9,
                             8>>, 14)

C7_Witness ==
    /\ GcpProdDb
    /\ FLess(FloatLit(<<1, 3, 6, 0>>, 2), ret.value.storage.monthly)
    /\ FLess(ret.value.total_monthly, FloatLit(<<1, 8, 0, 5, 5>>, 2))

\* C8: in every breakdown storage.gb is 30 times the instance count, plus
\* 20 exactly when the database is enabled; the 20 GB increment is present
\* if and only if the database monthly charge is.
C8_StorageGb ==
    Returned
        => LET extra == ret.value.storage.gb - 30 * ret.value.compute.instances
           IN  /\ extra = IF est.enable_db THEN 20 ELSE 0
               /\ extra = 20 <=> FLess(FZero, ret.value.database.monthly)

C8_Witness ==
    /\ Returned
    /\ est.enable_db
    /\ ret.value.compute.instances = 2
    /\ ret.value.storage.gb = 80

\* C9: in every breakdown total_monthly is the sum of the monthly charges
\* of the four returned items, compute + storage + data transfer +
\* database, added in that order.
C9_TotalIsSumOfItems ==
    Returned
        => ret.value.total_monthly =
               FAdd(FAdd(FAdd(ret.value.compute.monthly,
                              ret.value.storage.monthly),
                         ret.value.data_transfer.monthly),
                    ret.value.database.monthly)

C9_Witness ==
    /\ Returned
    /\ est.cloud = "aws" /\ est.environment = "staging" /\ est.enable_db
    /\ ret.value.total_monthly = FloatLit(<<1, 0, 0, 8, 5, 6>>, 3)

\* C10: storage.monthly is 30 * instance_count * storage_rate, plus
\* 20 * db_storage_rate when the database is enabled, with storage_rate
\* 0.10 (AWS) or 0.17 (GCP) and db_storage_rate 0.115 (AWS) or 0.17 (GCP),
\* whatever the tier's price-table entries and the live source's answer.
C10_StorageMonthly ==
    Returned
        => LET n == ret.value.compute.instances
               rate == IF est.cloud = "aws"
                       THEN FloatLit(<<1, 0>>, 2) ELSE FloatLit(<<1, 7>>, 2)
               db_rate == IF est.cloud = "aws"
                          THEN FloatLit(<<1, 1, 5>>, 3) ELSE FloatLit(<<1, 7>>, 2)
               base == FMul(FFromInt(30 * n), rate)
           IN  ret.value.storage.monthly =
                   IF est.enable_db
                   THEN FAdd(base, FMul(FFromInt(20), db_rate))
                   ELSE base

C10_Witness ==
    /\ Returned
    /\ est.cloud = "aws" /\ est.enable_db /\ LivePriced
    /\ ret.value.storage.monthly = FloatLit(<<8, 3>>, 1)


\* the static price table a lookup reads
PriceTable(l) ==
    IF l.table = "aws" THEN AWS_PRICING_FALLBACK ELSE GCP_PRICING_FALLBACK

\* the lookup finds no price: the type identifier is not in the table, or
\* the region is not in the identifier's entry
Missing(l) ==
    \/ l.key \notin DOMAIN PriceTable(l)
    \/ l.region \notin DOMAIN PriceTable(l)[l.key]

\* the hourly price the latest call used for the lookup l: the breakdown
\* holds the compute price as it is and the database price times 730
UsedPrice(l, hourly) ==
    IF l.kind = "compute"
    THEN ret.value.compute.hourly = hourly
    ELSE ret.value.database.monthly = FMul(hourly, FFromInt(HoursPerMonth))

\* type identifiers no AWS price table entry has
NotAwsTypes == {"n1-standard-1", "db-f1-micro", "m5.large"}

\* C11: when the type identifier is missing from the provider's static
\* price table, or the region from the identifier's entry, the estimate is
\* returned, no error raised, with the provider's fixed default as the
\* hourly price: 0.05 for compute and 0.017 for a database on AWS, 0.0475
\* for compute and 0.015 for a database on GCP.
C11_FallbackDefaults ==
    /\ (call.kind = "estimate" /\ \E l \in call.lookups : Missing(l))
           => Returned
    /\ Returned
           => \A l \in call.lookups :
                 Missing(l)
                     => UsedPrice(l, CASE l.table = "aws" /\ l.kind = "compute"
                                            -> FloatLit(<<5>>, 2)
                                       [] l.table = "aws" /\ l.kind = "database"
                                            -> FloatLit(<<1, 7>>, 3)
                                       [] l.table = "gcp" /\ l.kind = "compute"
                                            -> FloatLit(<<4, 7, 5>>, 4)
                                       [] l.table = "gcp" /\ l.kind = "database"
                                            -> FloatLit(<<1, 5>>, 3))
    /\ est.cloud = "aws"
           => \A t \in NotAwsTypes :
                 /\ aws_instance_hourly(est, t, "raise") = FloatLit(<<5>>, 2)
                 /\ aws_db_hourly(est, t) = FloatLit(<<1, 7>>, 3)

\* C11 as stated: 0.05 and 0.017 are the defaults for either provider
C11_Original ==
    Returned
        => \A l \in call.lookups :
              Missing(l)
                  => UsedPrice(l, IF l.kind = "compute"
                                  THEN FloatLit(<<5>>, 2)
                                  ELSE FloatLit(<<1, 7>>, 3))

C11_Witness ==
    /\ Returned
    /\ est.cloud = "gcp" /\ est.environment = "qa" /\ est.enable_db
    /\ \A l \in call.lookups : Missing(l)
    /\ ret.value.compute.hourly = FloatLit(<<4, 7, 5>>, 4)
    /\ ret.value.database.monthly = FloatLit(<<1, 0, 9, 5>>, 2)

\* the live lookups that gave no price: the request failed, the result set
\* was empty, or the response was not a well-formed price list
LiveFailures == {"raise", "empty", "malformed", "unpriced"}

\* the same estimator with no live source at all
NoLiveSource == [est EXCEPT !.pricing_client = None]

\* C12: when a live price lookup is attempted and fails in any way
\* (request error, empty result set, malformed response), estimate() does
\* not raise and returns exactly the breakdown it returns with no live
\* source at all.
C12_LiveFailureIsFallback ==
    (call.kind = "estimate" /\ call.live \in LiveFailures)
        => /\ Returned
           /\ ret = estimate(NoLiveSource, "raise")

\* C13: a live price lookup is attempted during estimate() only if a live
\* client was constructed for the estimator's own provider; when the
\* client constructor raises, the client library is absent or the provider
\* differs, the estimator is still constructed, its client is absent, and
\* every price comes from the static table whatever the live source
\* would do.
C13_LiveOnlyWithClient ==
    /\ \A cloud \in RawClouds, environment \in RawEnvs, client_ok \in BOOLEAN :
          /\ (~client_ok \/ ~AWS_AVAILABLE \/ Lower(cloud) # "aws")
                => __init__(cloud, environment, TRUE, AWS_AVAILABLE,
                            GCP_AVAILABLE, client_ok).pricing_client = None
          /\ (~client_ok \/ ~GCP_AVAILABLE \/ Lower(cloud) # "gcp")
                => __init__(cloud, environment, TRUE, AWS_AVAILABLE,
                            GCP_AVAILABLE, client_ok).billing_client = None
    /\ est.pricing_client # None => (est.cloud = "aws" /\ AWS_AVAILABLE)
    /\ est.billing_client # None => (est.cloud = "gcp" /\ GCP_AVAILABLE)
    /\ (call.kind = "estimate" /\ call.live # "unused")
          => (est.cloud = "aws" /\ est.pricing_client # None)
    /\ (Returned /\ est.pricing_client = None)
          => /\ call.live = "unused"
             /\ \E l \in call.lookups : l.kind = "compute"
             /\ \A live \in LiveResponses : ret = estimate(est, live)

C13_Witness ==
    /\ Returned
    /\ est.cloud = "aws" /\ AWS_AVAILABLE /\ est.pricing_client = None
    /\ call.live = "unused"
    /\ ret.value.compute.hourly = FloatLit(<<4, 1, 6>>, 4)

\* C14: for provider aws or gcp estimate() returns a breakdown and never
\* raises, for every tier string, known or not, every database flag and
\* every behaviour of the live price source; the only error that reaches
\* the caller is the unsupported-provider error.
C14_OnlyUnsupportedProviderRaises ==
    call.kind = "estimate"
        => /\ est.cloud \in Providers => Returned
           /\ ret.kind = "raise"
                 => (ret.exc = "ValueError" /\ est.cloud \notin Providers)

C14_Witness ==
    /\ Returned
    /\ est.cloud = "aws" /\ est.environment = "qa" /\ est.enable_db
    /\ call.live = "raise"
    /\ ret.value.compute.type = "t3.medium"

\* the sizing the tables are to give: region, compute type, database type
Sizing(cloud, environment) ==
    CASE cloud = "aws" /\ environment = "dev"
             -> <<"us-east-1", "t3.medium", "db.t3.micro">>
      [] cloud = "aws" /\ environment \in {"staging", "prod"}
             -> <<"us-west-2", "t3.large", "db.t3.small">>
      [] cloud = "gcp" /\ environment = "dev"
             -> <<"us-east1", "n1-standard-1", "db-f1-micro">>
      [] cloud = "gcp" /\ environment \in {"staging", "prod"}
             -> <<"us-west1", "n1-standard-2", "db-g1-small">>

\* C15: the sizing tables have an entry for each of the 6 (provider, tier)
\* pairs, and an estimator of a known pair has the region, compute type
\* and database type: aws dev -> (us-east-1, t3.medium, db.t3.micro); aws
\* staging and prod -> (us-west-2, t3.large, db.t3.small); gcp dev ->
\* (us-east1, n1-standard-1, db-f1-micro); gcp staging and prod ->
\* (us-west1, n1-standard-2, db-g1-small).
C15_SizingTables ==
    /\ \A cloud \in Providers :
          /\ cloud \in DOMAIN region_map /\ Tiers \subseteq DOMAIN region_map[cloud]
          /\ cloud \in DOMAIN instance_map
          /\ Tiers \subseteq DOMAIN instance_map[cloud]
          /\ cloud \in DOMAIN db_map /\ Tiers \subseteq DOMAIN db_map[cloud]
    /\ KnownPair
          => <<est.region, _get_instance_type(est), _get_db_instance_type(est)>>
                 = Sizing(est.cloud, est.environment)
    /\ (KnownPair /\ Returned)
          => ret.value.compute.type = Sizing(est.cloud, est.environment)[2]

C15_Witness ==
    /\ est.cloud = "gcp" /\ est.environment = "staging"
    /\ est.region = "us-west1"
    /\ Returned
    /\ ret.value.compute.type = "n1-standard-2"

\* C16: for a tier or provider string outside the known ones, the sizing
\* lookups return the default identifiers, region us-east-1, compute type
\* t3.medium and database type db.t3.micro, instead of failing; an
\* estimate of a known provider with an unknown tier is sized by them.
C16_SizingDefaults ==
    /\ ~KnownPair
          => /\ est.region = "us-east-1"
             /\ _get_instance_type(est) = "t3.medium"
             /\ _get_db_instance_type(est) = "db.t3.micro"
    /\ (~KnownPair /\ Returned)
          => /\ ret.value.compute.type = "t3.medium"
             /\ est.enable_db => ret.value.database.type = "db.t3.micro"

C16_Witness ==
    /\ est.cloud = "gcp" /\ est.environment = "qa" /\ est.enable_db
    /\ est.region = "us-east-1"
    /\ Returned
    /\ ret.value.database.type = "db.t3.micro"

\* a provider's vocabulary: the type identifiers its price table has, and
\* the regions its entries have
TypeVocabulary(cloud) == DOMAIN PriceTable([table |-> cloud])

RegionVocabulary(cloud) ==
    UNION {DOMAIN PriceTable([table |-> cloud])[k] : k \in TypeVocabulary(cloud)}

\* C17: in every estimation, for every tier string including unknown
\* ones, each type identifier and region looked up in a provider's price
\* table belongs to that provider's vocabulary: no AWS identifier or
\* region is looked up in the GCP table, no GCP one in the AWS table.
C17_NoCrossProviderLookup ==
    call.kind = "estimate"
        => \A l \in call.lookups :
              /\ l.table = est.cloud
              /\ l.key \in TypeVocabulary(l.table)
              /\ l.region \in RegionVocabulary(l.table)
              /\ \A other \in Providers \ {l.table} :
                    /\ l.key \notin TypeVocabulary(other)
                    /\ l.region \notin RegionVocabulary(other)

\* the component names of the rows of a printed table, in order
Components(t) == [i \in 1..Len(t) |-> t[i].component]

\* C19: print_summary renders one row each for compute, storage and data
\* transfer, a database row if and only if the database is enabled in the
\* breakdown, then the monthly and the yearly total, and leaves every
\* value of the breakdown it was given unchanged.
C19_PrintSummaryRows ==
    printed.kind = "printed"
        => /\ Components(printed.table_data)
                 = IF printed.given.database.enabled
                   THEN <<"Compute", "Storage", "Data Transfer", "Database",
                          "TOTAL (Monthly)", "TOTAL (Yearly)">>
                   ELSE <<"Compute", "Storage", "Data Transfer",
                          "TOTAL (Monthly)", "TOTAL (Yearly)">>
           /\ ret.kind = "return"
           /\ ret.value = printed.given

C19_Witness ==
    /\ printed.kind = "printed"
    /\ est.cloud = "gcp" /\ est.environment = "prod" /\ est.enable_db
    /\ Len(printed.table_data) = 6
    /\ printed.table_data[4].component = "Database"
    /\ printed.table_data[4].cost = 1825
    /\ printed.table_data[5].cost = 18055

\* the step of provision() entered last
LastStep == IF trace = <<>> THEN "none" ELSE trace[Len(trace)]

\* the cost estimation of the run did not get to its summary: the
\* estimator class is unavailable, or an exception arose in the try block
EstimationFailed ==
    LastStep = "estimate_costs" /\ printed.kind # "printed"

\* C18: in the provisioning run a failure of cost estimation (an
\* exception from constructing the estimator, from estimating or from
\* printing, or the estimator module being unavailable) never stops the
\* run: estimate_costs returns normally, with or without a failure, and
\* Terraform initialization is the step reached next.
C18_EstimationNeverStopsRun ==
    LastStep = "estimate_costs"
        => /\ pc = "initialize_terraform"
           /\ exit_status = NoCall

C18_Witness ==
    /\ EstimationFailed
    /\ CostEstimator = "class"
    /\ ret.kind = "raise"
    /\ pc = "initialize_terraform"

\* the steps of provision() entered so far in the run
StepsEntered == {trace[i] : i \in DOMAIN trace}

\* C21: when the command line of the provisioner has --skip-costs, the
\* run performs no cost estimation: estimate_costs is not executed before
\* Terraform initialization (nor at any other point of the run).
C21_SkipCostsSkipsEstimation ==
    (args.entry = "main" /\ args.skip_costs)
        => "estimate_costs" \notin StepsEntered

\* C22: constructing a Provisioner succeeds if and only if the lower-cased
\* cloud is aws or gcp and the lower-cased environment is dev, staging or
\* prod; otherwise it raises ValueError, for the cloud if the cloud is
\* unsupported and else for the environment, and no workflow step runs.
C22_ProvisionerValidates ==
    /\ \A cloud \in RawClouds, environment \in RawEnvs :
          /\ Provisioner(cloud, environment, TRUE).kind = "return"
                <=> (Lower(cloud) \in Providers /\ Lower(environment) \in Tiers)
          /\ Provisioner(cloud, environment, TRUE).kind # "return"
                => /\ Provisioner(cloud, environment, TRUE).kind = "raise"
                   /\ Provisioner(cloud, environment, TRUE).exc = "ValueError"
                   /\ Provisioner(cloud, environment, TRUE).text
                         = IF Lower(cloud) \notin Providers
                           THEN "Unsupported cloud provider: "
                           ELSE "Unsupported environment: "
    /\ (args.entry = "provision" /\ pc # "start")
          => (prov # NoCall
                 <=> (Lower(args.cloud) \in Providers /\ Lower(args.env) \in Tiers))
    /\ prov # NoCall => (prov.cloud \in Providers /\ prov.environment \in Tiers)
    /\ prov = NoCall => trace = <<>>

C22_Witness ==
    /\ args.entry = "provision"
    /\ args.cloud = "aws" /\ args.env = "qa"
    /\ pc = "raised"
    /\ prov = NoCall

\* the call of run_terraform_plan() has ended, by a return or an exception
PlanRan == plan.kind # "none"

\* C23: run_terraform_plan reports drift exactly when terraform plan ends
\* with exit code 2, and then returns its stdout; exit code 0 gives
\* (False, "No drift detected"), any other exit code (False, the error text
\* with stderr), a timeout (False, "Terraform plan timed out"); and no
\* exception escapes it.
C23_RunTerraformPlanTotal ==
    PlanRan =>
        /\ plan.kind = "return"
        /\ plan.has_drift <=>
               (terraform.kind = "exit" /\ terraform.returncode = 2)
        /\ plan.has_drift => plan.plan_output = terraform.stdout
        /\ (terraform.kind = "exit" /\ terraform.returncode = 0) =>
               plan.plan_output = Text(<<"No", "drift", "detected">>)
        /\ (terraform.kind = "exit" /\ terraform.returncode \notin {0, 2}) =>
               plan.plan_output =
                   TextJoin(Text(<<"Error", "running", "terraform", "plan:">>),
                            terraform.stderr)
        /\ terraform.kind = "TimeoutExpired" =>
               plan.plan_output = Text(<<"Terraform", "plan", "timed", "out">>)

\* C24: every run of detect_drift saves the generated report, with or
\* without drift and whatever the alert settings, and returns the has_drift
\* value of run_terraform_plan.
C24_DetectDriftAlwaysSaves ==
    PlanRan =>
        /\ Len(saved) = 1
        /\ report # <<>>
        /\ saved[1].text = report
        /\ detected.kind = "return"
        /\ plan.kind = "return"
        /\ detected.value = plan.has_drift

\* run_terraform_plan() found drift, so the plan output has been parsed
Parsed == plan.kind = "return" /\ plan.has_drift

\* the condition stated for a list: the line holds no "Plan:", starts with
\* the symbol (as printed, or once stripped) and contains the phrase
Stated(line, symbol, phrase, stripped) ==
    /\ \A i \in DOMAIN line.words : line.words[i] # "Plan:"
    /\ StartsWith(IF stripped THEN Strip(line) ELSE line, symbol)
    /\ Contains(line, phrase)

\* a list holds one entry per line of the plan output that meets the
\* condition stated for it, and each entry comes from such a line
ListAsStated(list, symbol, phrase, stripped) ==
    /\ Len(list) =
           Cardinality({i \in DOMAIN plan.plan_output :
               Stated(plan.plan_output[i], symbol, phrase, stripped)})
    /\ \A k \in DOMAIN list :
          \E i \in DOMAIN plan.plan_output :
             /\ Stated(plan.plan_output[i], symbol, phrase, stripped)
             /\ list[k] = ResourceOf(plan.plan_output[i])

ListsAsStated(stripped) ==
    /\ ListAsStated(drift_summary.resources_to_add, "+",
                    <<"will", "be", "created">>, stripped)
    /\ ListAsStated(drift_summary.resources_to_change, "~",
                    <<"will", "be", "updated">>, stripped)
    /\ ListAsStated(drift_summary.resources_to_destroy, "-",
                    <<"will", "be", "destroyed">>, stripped)

\* C25 (amended): parse_drift_changes records a plan line in
\* resources_to_add iff the line, with the white space around it removed,
\* starts with '+' and contains 'will be created', in resources_to_change
\* iff it then starts with '~' and contains 'will be updated', in
\* resources_to_destroy iff it then starts with '-' and contains 'will be
\* destroyed'; lines containing 'Plan:' and all other lines are recorded
\* nowhere, and no line is recorded in more than one list.
C25_ParseStrippedLines == Parsed => ListsAsStated(TRUE)

\* C25 as stated: the line itself starts with the symbol.
C25_Original == Parsed => ListsAsStated(FALSE)

\* a plan of six lines, indented as terraform prints them, parsed into two
\* additions, one change and one destruction
C25_Witness ==
    /\ Parsed
    /\ plan.plan_output = TypicalPlan
    /\ drift_summary.resources_to_add = <<<<"a">>, <<"b">>>>
    /\ drift_summary.resources_to_change = <<<<"c">>>>
    /\ drift_summary.resources_to_destroy = <<<<"d">>>>

\* the steps of provision() in the order of its code
StepOrder ==
    <<"check_prerequisites", "estimate_costs", "initialize_terraform",
      "plan_terraform", "apply_terraform", "run_ansible", "complete">>

GatingSteps ==
    {"check_prerequisites", "initialize_terraform", "plan_terraform",
     "apply_terraform"}

\* step i of the run is a gating step that failed: a tool is missing, or
\* terraform ended with a non-zero exit
GateFailed(i) ==
    /\ trace[i] \in GatingSteps
    /\ results[i] \in {"missing", "CalledProcessError"}

\* C26: in provision() the steps run in the fixed order prerequisites,
\* cost estimation, terraform init, plan, apply, Ansible; a missing tool, a
\* failed init, a failed plan or a failed apply ends the run with exit
\* status 1 and no later step runs, so terraform apply is invoked only
\* after plan succeeded in the same run and Ansible only after apply
\* succeeded.
C26_StepsOrderedAndGated ==
    /\ Len(trace) <= Len(StepOrder)
    /\ \A i \in DOMAIN trace : trace[i] = StepOrder[i]
    /\ \A i \in DOMAIN results :
          GateFailed(i) =>
              /\ i = Len(trace)
              /\ pc = "exited"
              /\ exit_status = [kind |-> "exit", code |-> 1]
    /\ \A i \in DOMAIN trace :
          /\ trace[i] = "apply_terraform" =>
                 trace[i - 1] = "plan_terraform" /\ results[i - 1] = "ok"
          /\ trace[i] = "run_ansible" =>
                 trace[i - 1] = "apply_terraform" /\ results[i - 1] = "ok"

\* a run stopped by a failed plan, after three steps went well
C26_Witness ==
    /\ trace = SubSeq(StepOrder, 1, 4)
    /\ GateFailed(4)
    /\ pc = "exited"
    /\ exit_status = [kind |-> "exit", code |-> 1]

\* terraform apply succeeded and run_ansible() returned: the playbook
\* went well, or ended with a non-zero exit
AnsibleReturned ==
    /\ Len(results) >= 6
    /\ results[5] = "ok"
    /\ results[6] \in {"ok", "CalledProcessError"}

\* C27: once terraform apply has succeeded, provision() reaches its
\* completion stage (the success banner and the output listing) whether
\* the Ansible deployment succeeds or ends with a non-zero exit: the run
\* does not stop at the Ansible step, and when the completion stage has
\* run, provision() has returned and the command's exit status is 0, not
\* an error.
C27_AnsibleFailureStillCompletes ==
    AnsibleReturned =>
        /\ pc \in {"complete", "done"} \/ Len(trace) = 7
        /\ Len(trace) = 6 => pc = "complete" /\ exit_status = NoCall
        /\ (Len(results) = 7 /\ results[7] \in {"ok", "CalledProcessError"}) =>
               /\ pc = "done"
               /\ exit_status = IF args.entry = "main"
                                THEN [kind |-> "exit", code |-> 0]
                                ELSE NoCall

\* a run whose playbook failed and which completed with exit status 0
C27_Witness ==
    /\ AnsibleReturned
    /\ results[6] = "CalledProcessError"
    /\ Len(trace) = 7
    /\ trace[7] = "complete"
    /\ pc = "done"
    /\ exit_status = [kind |-> "exit", code |-> 0]

\* C28: when the AWS live source returns a non-empty price list whose
\* first entry parses, the compute hourly price used is the fixed 0.05 for
\* every tier, whatever the instance type, the region and the data
\* returned, and the static price table is not read for the compute price.
C28_LivePriceIsPlaceholder ==
    (Returned /\ LivePriced) =>
        /\ est.cloud = "aws"
        /\ ret.value.compute.hourly = FloatLit(<<5>>, 2)
        /\ ret.value.compute.monthly =
               compute_monthly(FloatLit(<<5>>, 2),
                               ret.value.compute.instances)
        /\ \A l \in call.lookups : l.kind # "compute"
        /\ \A live \in LiveParsed : estimate(est, live) = ret

\* the prod tier, whose type the table prices at 0.0832, priced at 0.05
C28_Witness ==
    /\ Returned /\ LivePriced
    /\ est.environment = "prod"
    /\ ret.value.compute.type = "t3.large"
    /\ AWS_PRICING_FALLBACK["t3.large"][est.region] # FloatLit(<<5>>, 2)
    /\ ret.value.compute.hourly = FloatLit(<<5>>, 2)

\* the estimator of the latest call with its live clients taken away
NoClients == [est EXCEPT !.pricing_client = None, !.billing_client = None]

\* C29: the database charge and every GCP price are independent of the
\* live price source: for a provider, tier and database flag, the
\* database.monthly of either provider and the whole GCP breakdown are the
\* same whether the live source is absent, failing or answering.
C29_DatabaseAndGcpIgnoreLive ==
    Returned =>
        \A live \in LiveResponses :
            /\ estimate(est, live).value.database.monthly
                   = ret.value.database.monthly
            /\ estimate(NoClients, live).value.database.monthly
                   = ret.value.database.monthly
            /\ est.cloud = "gcp" =>
                   /\ estimate(est, live) = ret
                   /\ estimate(NoClients, live) = ret

\* an AWS estimate whose compute price came from the live source and
\* whose database charge is the one of the static table
C29_Witness ==
    /\ Returned /\ LivePriced
    /\ est.enable_db /\ est.environment = "staging"
    /\ ret # estimate(NoClients, "raise")
    /\ ret.value.database.monthly = FMul(FloatLit(<<3, 4>>, 3),
                                         FFromInt(HoursPerMonth))

\* terraform plan ended in an error exit code, a timeout or an exception
\* that run_terraform_plan() caught
PlanFailed ==
    /\ plan.kind = "return"
    /\ \/ terraform.kind \in {"TimeoutExpired", "Exception"}
       \/ terraform.kind = "exit" /\ terraform.returncode \notin {0, 2}

\* the report of a failed plan is the report of a clean one: it says that
\* no drift was detected and holds no line of the error text
CleanReport ==
    /\ \E i \in DOMAIN report : report[i] = NoDriftLine
    /\ \A i \in DOMAIN report, j \in DOMAIN plan.plan_output :
          report[i] # plan.plan_output[j]
    /\ report = generate_drift_report(
                    detector, FALSE, Text(<<"No", "drift", "detected">>))

\* C30 (amended): when terraform plan ends in an error exit code, a
\* timeout or an exception, no alert is sent and the generated report
\* says that no drift was detected and the infrastructure matches the
\* configuration, with no line of the error text; when the report can be
\* saved, detect_drift returns False and the drift command exits with
\* status 0, and when it cannot, the exception of save_report leaves
\* detect_drift and the command exits with status 1, in both cases as
\* after a clean run.
C30_FailedPlanLooksClean ==
    PlanFailed =>
        /\ alerts = <<>>
        /\ CleanReport
        /\ detected.kind \in {"return", "raise"}
        /\ detected.kind = "return" =>
               /\ detected.value = FALSE
               /\ Len(saved) = 1
               /\ dpc = "exited" => drift_exit = [kind |-> "exit", code |-> 0]
               /\ dargs.entry = "main" => dpc \in {"returned", "exited"}
        /\ detected.kind = "raise" =>
               /\ saved = <<>>
               /\ dpc = IF dargs.entry = "main" THEN "exited" ELSE "raised"
               /\ dpc = "exited" => drift_exit = [kind |-> "exit", code |-> 1]

\* C30 as stated: detect_drift returns False and the command exits with
\* status 0 after every failed plan.
C30_Original ==
    PlanFailed =>
        /\ detected = [kind |-> "return", value |-> FALSE]
        /\ alerts = <<>>
        /\ CleanReport
        /\ dpc = "exited" => drift_exit = [kind |-> "exit", code |-> 0]
        /\ dargs.entry = "main" => dpc \in {"returned", "exited"}

\* terraform plan failed for want of credentials, alerts were asked for by
\* mail, and the command has exited with status 0
C30_Witness ==
    /\ PlanFailed
    /\ terraform.kind = "exit" /\ terraform.returncode = 1
    /\ terraform.stderr = Text(<<"Error:", "no", "credentials">>)
    /\ ~dargs.no_alert /\ Truthy(dargs.email_config)
    /\ Len(saved) = 1
    /\ dpc = "exited"
    /\ drift_exit = [kind |-> "exit", code |-> 0]

\* the call k has ended, by a return or by the unsupported-provider error
Ended(k) == frames[k].pc \in {"returned", "raised"}

\* what the call k gives when it is the only call: estimate() run in one
\* piece on its estimator, the live source behaving as it did in the call
Alone(k) ==
    estimate(estimators[frames[k].self],
             IF frames[k].live = "unused" THEN "raise" ELSE frames[k].live)

\* C20: estimation calls are independent: a step of an estimate() call
\* changes no field of any estimator, no module state and no local of
\* another call, so in every interleaving of the steps of calls, on one
\* estimator or on several, each call returns the breakdown (or raises the
\* error) that it gives when it runs alone.
C20_CallsIndependent ==
    /\ [][/\ estimators' = estimators
          /\ AWS_AVAILABLE' = AWS_AVAILABLE
          /\ GCP_AVAILABLE' = GCP_AVAILABLE
          /\ \A k \in CallIds :
                frames'[k] # frames[k] =>
                    \A j \in CallIds \ {k} : frames'[j] = frames[j]]_vars
    /\ [](\A k \in CallIds : Ended(k) => frames[k].ret = Alone(k))

\* two calls on one estimator, each with steps taken while the other was
\* in flight; the live source answered one and failed the other, and the
\* two breakdowns differ
C20_Witness ==
    /\ frames[1].self = frames[2].self
    /\ estimators[frames[1].self].environment = "dev"
    /\ frames[1].pc = "returned" /\ frames[2].pc = "returned"
    /\ frames[1].overlapped /\ frames[2].overlapped
    /\ frames[1].live = "ok" /\ frames[2].live = "raise"
    /\ frames[1].ret # frames[2].ret
    /\ frames[1].ret = Alone(1) /\ frames[2].ret = Alone(2)

=============================================================================
